---- MODULE Spec2Model ----
(***************************************************************************)
(* War-Lanes Poker rules engine: the reducer (src/src/game/reducer.ts),    *)
(* the state helpers and suit effects (src/src/game/state.ts), the deck    *)
(* (src/src/game/deck.ts), the poker bonus (src/src/game/poker.ts) and the *)
(* AI planner (src/src/game/ai.ts).                                         *)
(*                                                                         *)
(* A card is held by its id, the number n of "card-n"; createDeck gives    *)
(* the suit and rank of every id and no card is ever built elsewhere.      *)
(* A null or undefined field is "none" (suits), 0 (winner), NoFlipResult   *)
(* (flipResult) or the empty list (pendingResolutionLanes, which the code  *)
(* reads only in Main, after handleContinueFromFlip has assigned []).      *)
(***************************************************************************)
EXTENDS Integers, Sequences, FiniteSets, TLC

VARIABLES state, last, used

vars == <<state, last, used>>

----------------------------------------------------------------------------
(* Bounds of the exploration                                               *)

\* Accepted END_TURN dispatches explored within one round.
MaxTurns == 4
\* Dispatches the board never makes (a play or discard beyond CARDS_PER_TURN,
\* a RESOLVE_LANE during Main) explored within one game of a deal that
\* allows them.
MaxDirect == 1
\* Rounds explored within one game.
MaxRounds == 2
\* How many cards, from the head of the hand, player 1 picks from.
MaxPick == 1
\* How many lanes, from the left, player 1 plays to.
MaxLane == 2

----------------------------------------------------------------------------
(* deck.ts                                                                 *)

STANDARD_SUITS == <<"hearts", "diamonds", "clubs", "spades">>

STANDARD_RANKS == <<"2", "3", "4", "5", "6", "7", "8", "9", "10", "J", "Q", "K", "A">>

JOKER_COUNT == 4

DECK_SIZE == 56

\* rankValue for every rank: parseInt(rank, 10) for the number ranks.
rankValueTable ==
  [rank \in {STANDARD_RANKS[i] : i \in 1..Len(STANDARD_RANKS)} \cup {"JOKER"} |->
     CASE rank = "J" -> 11
       [] rank = "Q" -> 12
       [] rank = "K" -> 13
       [] rank = "A" -> 14
       [] rank = "JOKER" -> 15
       [] OTHER -> (CHOOSE i \in 1..9 : STANDARD_RANKS[i] = rank) + 1]

rankValue(rank) == rankValueTable[rank]

\* createDeck(): card-0 .. card-51 suit by suit, rank by rank, then 4 jokers.
createDeck ==
  [i \in 1..(Len(STANDARD_SUITS) * Len(STANDARD_RANKS) + JOKER_COUNT) |->
     IF i <= Len(STANDARD_SUITS) * Len(STANDARD_RANKS)
       THEN [id |-> i - 1,
             suit |-> STANDARD_SUITS[((i - 1) \div Len(STANDARD_RANKS)) + 1],
             rank |-> STANDARD_RANKS[((i - 1) % Len(STANDARD_RANKS)) + 1]]
       ELSE [id |-> i - 1, suit |-> "joker", rank |-> "JOKER"]]

CardIds == {createDeck[i].id : i \in 1..Len(createDeck)}

\* The Card object behind an id.
CardOf(id) == createDeck[id + 1]

cardValueTable == [id \in CardIds |-> rankValue(CardOf(id).rank)]

cardValue(id) == cardValueTable[id]

isJoker(id) == CardOf(id).rank = "JOKER"

\* findCardById: the card, or undefined (here: whether it is found).
findCardById(cards, cardId) == \E i \in 1..Len(cards) : cards[i] = cardId

removeCardById(cards, cardId) == SelectSeq(cards, LAMBDA c : c # cardId)

\* shuffle(items): Fisher-Yates returns some permutation of the items; perm is
\* the permutation of positions that the draws of Math.random produce.
shuffle(items, perm) == [i \in 1..Len(items) |-> items[perm[i]]]

----------------------------------------------------------------------------
(* poker.ts                                                                *)

BONUS_PAIR == 3
BONUS_THREE_OF_A_KIND == 12
BONUS_STRAIGHT == 10
BONUS_FLUSH == 8
BONUS_STRAIGHT_FLUSH == 20

isPair(ranks) ==
  IF Len(ranks) < 2 THEN FALSE
  ELSE IF Len(ranks) = 2 THEN ranks[1] = ranks[2]
  ELSE ranks[1] = ranks[2] \/ ranks[2] = ranks[3] \/ ranks[1] = ranks[3]

isThreeOfAKind(ranks) ==
  IF Len(ranks) # 3 THEN FALSE
  ELSE ranks[1] = ranks[2] /\ ranks[2] = ranks[3]

\* The least and the greatest of three numbers.
LeastOf(a, b, c) == IF a <= b /\ a <= c THEN a ELSE IF b <= c THEN b ELSE c

GreatestOf(a, b, c) == IF a >= b /\ a >= c THEN a ELSE IF b >= c THEN b ELSE c

\* sort((a, b) => a - b) of three numbers: the least, the middle, the greatest.
SortThree(a, b, c) ==
  <<LeastOf(a, b, c), a + b + c - LeastOf(a, b, c) - GreatestOf(a, b, c), GreatestOf(a, b, c)>>

\* values[1] === values[0] + 1 && values[2] === values[1] + 1
IsRun(values) == values[2] = values[1] + 1 /\ values[3] = values[2] + 1

isStraight_AceLow(ranks) ==
  IF Len(ranks) # 3 THEN FALSE
  ELSE \/ IsRun(SortThree(rankValue(ranks[1]), rankValue(ranks[2]), rankValue(ranks[3])))
       \/ IsRun(SortThree(rankValue(ranks[1]) % 13, rankValue(ranks[2]) % 13,
                          rankValue(ranks[3]) % 13))

isStraight(ranks) ==
  IF Len(ranks) # 3 THEN FALSE
  ELSE IsRun(SortThree(rankValue(ranks[1]), rankValue(ranks[2]), rankValue(ranks[3])))

isFlush(suits) ==
  IF Len(suits) # 3 THEN FALSE
  ELSE suits[1] = suits[2] /\ suits[2] = suits[3]

\* The ladder of returns shared by evaluateFixedHand and
\* evaluateRanksAndSuits, after straight and flush are computed.
BonusOf(ranks, straight, flush) ==
  IF straight /\ flush THEN BONUS_STRAIGHT_FLUSH
  ELSE IF isThreeOfAKind(ranks) THEN BONUS_THREE_OF_A_KIND
  ELSE IF straight THEN BONUS_STRAIGHT
  ELSE IF flush THEN BONUS_FLUSH
  ELSE IF isPair(ranks) THEN BONUS_PAIR
  ELSE 0

evaluateRanksAndSuits(ranks, suits) == BonusOf(ranks, isStraight(ranks), isFlush(suits))

\* cards.map(c => c.rank)
RanksOf(cards) == [i \in 1..Len(cards) |-> CardOf(cards[i]).rank]

\* cards.map(c => c.suit)
SuitsOf(cards) == [i \in 1..Len(cards) |-> CardOf(cards[i]).suit]

evaluateFixedHand(cards) ==
  BonusOf(RanksOf(cards), isStraight(RanksOf(cards)), isFlush(SuitsOf(cards)))

\* The greatest element of a non-empty set of numbers.
MaxOf(S) == CHOOSE x \in S : \A y \in S : y <= x

\* The k-th assignment the loops over STANDARD_RANKS and STANDARD_SUITS try
\* for a joker: the suits run inside the ranks.
WildCard(k) ==
  [rank |-> STANDARD_RANKS[((k - 1) \div Len(STANDARD_SUITS)) + 1],
   suit |-> STANDARD_SUITS[((k - 1) % Len(STANDARD_SUITS)) + 1]]

With1JokerLoop_StopsAtFirstBonus(r1, r2, s1, s2, from, start) ==
  LET loop[k \in Nat, best \in Nat] ==
        IF k > Len(STANDARD_RANKS) * Len(STANDARD_SUITS) THEN best
        ELSE LET bonus == evaluateRanksAndSuits(<<r1, r2, WildCard(k).rank>>,
                                                <<s1, s2, WildCard(k).suit>>)
                 next == MaxOf({best, bonus})
             IN IF next > 0 THEN next ELSE loop[k + 1, next]
  IN loop[from, start]

\* The two loops of evaluateWith1Joker from the k-th assignment on, best
\* being the greatest bonus seen so far: the loops are left as soon as best
\* is BONUS_STRAIGHT_FLUSH. The innermost two loops of evaluateWith2Jokers
\* are the same loops, the first joker's assignment standing for (r2, s2).
With1JokerLoop(r1, r2, s1, s2, from, start) ==
  LET loop[k \in Nat, best \in Nat] ==
        IF k > Len(STANDARD_RANKS) * Len(STANDARD_SUITS) THEN best
        ELSE LET bonus == evaluateRanksAndSuits(<<r1, r2, WildCard(k).rank>>,
                                                <<s1, s2, WildCard(k).suit>>)
                 next == MaxOf({best, bonus})
             IN IF next = BONUS_STRAIGHT_FLUSH THEN next ELSE loop[k + 1, next]
  IN loop[from, start]

With2JokersLoop_JokersAlike(r1, s1, from, start) ==
  LET loop[k \in Nat, best \in Nat] ==
        IF k > Len(STANDARD_RANKS) * Len(STANDARD_SUITS) THEN best
        ELSE LET bonus == evaluateRanksAndSuits(<<r1, WildCard(k).rank, WildCard(k).rank>>,
                                                <<s1, WildCard(k).suit, WildCard(k).suit>>)
                 next == MaxOf({best, bonus})
             IN IF next = BONUS_STRAIGHT_FLUSH THEN next ELSE loop[k + 1, next]
  IN loop[from, start]

\* The outer two loops of evaluateWith2Jokers from the first joker's k-th
\* assignment on.
With2JokersLoop(r1, s1, from, start) ==
  LET loop[k \in Nat, best \in Nat] ==
        IF k > Len(STANDARD_RANKS) * Len(STANDARD_SUITS) THEN best
        ELSE LET next == With1JokerLoop(r1, WildCard(k).rank, s1, WildCard(k).suit, 1, best)
             IN IF next = BONUS_STRAIGHT_FLUSH THEN next ELSE loop[k + 1, next]
  IN loop[from, start]

\* What evaluateWith1Joker returns for the ranks and suits of the two other
\* cards, for all of them (positions in STANDARD_RANKS and STANDARD_SUITS).
With1JokerTable ==
  [r1 \in 1..Len(STANDARD_RANKS), r2 \in 1..Len(STANDARD_RANKS),
   s1 \in 1..Len(STANDARD_SUITS), s2 \in 1..Len(STANDARD_SUITS) |->
     With1JokerLoop(STANDARD_RANKS[r1], STANDARD_RANKS[r2],
                    STANDARD_SUITS[s1], STANDARD_SUITS[s2], 1, 0)]

\* What evaluateWith2Jokers returns for the rank and suit of the other card,
\* for all of them.
With2JokersTable ==
  [r1 \in 1..Len(STANDARD_RANKS), s1 \in 1..Len(STANDARD_SUITS) |->
     With2JokersLoop(STANDARD_RANKS[r1], STANDARD_SUITS[s1], 1, 0)]

\* The positions of a non-joker card's rank in STANDARD_RANKS and of its suit
\* in STANDARD_SUITS (createDeck deals suit by suit, rank by rank).
RankIndex(id) == (id % Len(STANDARD_RANKS)) + 1

SuitIndex(id) == (id \div Len(STANDARD_RANKS)) + 1

evaluateWith1Joker(nonJokers) ==
  With1JokerTable[RankIndex(nonJokers[1]), RankIndex(nonJokers[2]),
                  SuitIndex(nonJokers[1]), SuitIndex(nonJokers[2])]

evaluateWith2Jokers(nonJokers) ==
  With2JokersTable[RankIndex(nonJokers[1]), SuitIndex(nonJokers[1])]

evaluate2CardBonus(cards) ==
  LET jokerCount == Len(SelectSeq(cards, isJoker))
      nonJokers == SelectSeq(cards, LAMBDA c : ~isJoker(c))
  IN IF jokerCount >= 1 THEN BONUS_PAIR
     ELSE IF CardOf(nonJokers[1]).rank = CardOf(nonJokers[2]).rank THEN BONUS_PAIR ELSE 0

evaluate3CardBonus(cards) ==
  LET jokerCount == Len(SelectSeq(cards, isJoker))
      nonJokers == SelectSeq(cards, LAMBDA c : ~isJoker(c))
  IN IF jokerCount = 3 THEN BONUS_STRAIGHT_FLUSH
     ELSE IF jokerCount = 2 THEN evaluateWith2Jokers(nonJokers)
     ELSE IF jokerCount = 1 THEN evaluateWith1Joker(nonJokers)
     ELSE evaluateFixedHand(cards)

evaluateLaneBonus(cards) ==
  IF Len(cards) <= 1 THEN 0
  ELSE IF Len(cards) = 2 THEN evaluate2CardBonus(cards)
  ELSE IF Len(cards) = 3 THEN evaluate3CardBonus(cards)
  ELSE 0

RECURSIVE calculateBaseSum(_)
calculateBaseSum(cards) ==
  IF cards = <<>> THEN 0
  ELSE rankValue(CardOf(Head(cards)).rank) + calculateBaseSum(Tail(cards))

calculateLaneTotal(cards) == calculateBaseSum(cards) + evaluateLaneBonus(cards)

----------------------------------------------------------------------------
(* state.ts: lifecycle helpers                                             *)

STARTING_HP == 100

CARDS_PER_PLAYER == 28

LANE_IDS == <<"left", "middle", "right">>

\* "none" stands for a suit that is null or was never assigned (undefined).
NoSuit == "none"

\* flipResult when null or never assigned.
NoFlipResult == [player1Card |-> -1, player2Card |-> -1, winner |-> 0, damage |-> 0]

\* Array.prototype.slice(from, to) on 0-based positions.
slice(items, from, to) ==
  LET hi == IF to < Len(items) THEN to ELSE Len(items)
  IN IF from >= hi THEN <<>> ELSE SubSeq(items, from + 1, hi)

createEmptyLane(id) == [id |-> id, player1 |-> [cards |-> <<>>], player2 |-> [cards |-> <<>>]]

createEmptyLanes == [i \in 1..Len(LANE_IDS) |-> createEmptyLane(LANE_IDS[i])]

\* The ids of createDeck(), in its order.
createDeckIds == [i \in 1..Len(createDeck) |-> createDeck[i].id]

initializeNewGame(perm) ==
  LET deck == shuffle(createDeckIds, perm)
  IN [phase |-> "InitialFlip",
      player1 |-> [hp |-> STARTING_HP, deck |-> slice(deck, 0, CARDS_PER_PLAYER), hand |-> <<>>],
      player2 |-> [hp |-> STARTING_HP,
                   deck |-> slice(deck, CARDS_PER_PLAYER, CARDS_PER_PLAYER * 2), hand |-> <<>>],
      lanes |-> createEmptyLanes,
      discardPile |-> <<>>,
      currentPlayer |-> 1,
      roundNumber |-> 1,
      player1FinalTurnDone |-> FALSE,
      player2FinalTurnDone |-> FALSE,
      cardsPlayedThisTurn |-> 0,
      winner |-> 0,
      player1Suit |-> NoSuit,
      player2Suit |-> NoSuit,
      flipResult |-> NoFlipResult,
      fieldControlSuit |-> NoSuit,
      pendingResolutionLanes |-> <<>>]

RECURSIVE LaneCards(_)
\* The loop of collectAllCards over the lanes.
LaneCards(lanes) ==
  IF lanes = <<>> THEN <<>>
  ELSE Head(lanes).player1.cards \o Head(lanes).player2.cards \o LaneCards(Tail(lanes))

collectAllCards(s) ==
  s.player1.deck \o s.player1.hand \o s.player2.deck \o s.player2.hand
    \o s.discardPile \o LaneCards(s.lanes)

\* A new round that starts both players at the starting HP.
startNewRound_FullHP(prevState, perm) ==
  LET allCards == collectAllCards(prevState)
      shuffledDeck == shuffle(allCards, perm)
  IN [phase |-> "InitialFlip",
      player1 |-> [hp |-> STARTING_HP,
                   deck |-> slice(shuffledDeck, 0, CARDS_PER_PLAYER), hand |-> <<>>],
      player2 |-> [hp |-> STARTING_HP,
                   deck |-> slice(shuffledDeck, CARDS_PER_PLAYER, CARDS_PER_PLAYER * 2),
                   hand |-> <<>>],
      lanes |-> createEmptyLanes,
      discardPile |-> <<>>,
      currentPlayer |-> 1,
      roundNumber |-> prevState.roundNumber + 1,
      player1FinalTurnDone |-> FALSE,
      player2FinalTurnDone |-> FALSE,
      cardsPlayedThisTurn |-> 0,
      winner |-> 0,
      player1Suit |-> NoSuit,
      player2Suit |-> NoSuit,
      flipResult |-> NoFlipResult,
      fieldControlSuit |-> NoSuit,
      pendingResolutionLanes |-> <<>>]

startNewRound(prevState, perm) ==
  LET allCards == collectAllCards(prevState)
      shuffledDeck == shuffle(allCards, perm)
  IN [phase |-> "InitialFlip",
      player1 |-> [hp |-> prevState.player1.hp,
                   deck |-> slice(shuffledDeck, 0, CARDS_PER_PLAYER), hand |-> <<>>],
      player2 |-> [hp |-> prevState.player2.hp,
                   deck |-> slice(shuffledDeck, CARDS_PER_PLAYER, CARDS_PER_PLAYER * 2),
                   hand |-> <<>>],
      lanes |-> createEmptyLanes,
      discardPile |-> <<>>,
      currentPlayer |-> 1,
      roundNumber |-> prevState.roundNumber + 1,
      player1FinalTurnDone |-> FALSE,
      player2FinalTurnDone |-> FALSE,
      cardsPlayedThisTurn |-> 0,
      winner |-> 0,
      player1Suit |-> NoSuit,
      player2Suit |-> NoSuit,
      flipResult |-> NoFlipResult,
      fieldControlSuit |-> NoSuit,
      pendingResolutionLanes |-> <<>>]

drawCards(player, count) ==
  LET cardsToDraw == IF count < Len(player.deck) THEN count ELSE Len(player.deck)
  IN [player EXCEPT !.deck = slice(player.deck, cardsToDraw, Len(player.deck)),
                    !.hand = player.hand \o slice(player.deck, 0, cardsToDraw)]

applyDamage(player, damage) == [player EXCEPT !.hp = player.hp - damage]

\* findLane: the position of the lane in the list, 0 when there is none.
findLane(lanes, laneId) ==
  IF \E i \in 1..Len(lanes) : lanes[i].id = laneId
    THEN CHOOSE i \in 1..Len(lanes) :
           lanes[i].id = laneId /\ \A j \in 1..(i - 1) : lanes[j].id # laneId
    ELSE 0

updateLane(lanes, updatedLane) ==
  [i \in 1..Len(lanes) |-> IF lanes[i].id = updatedLane.id THEN updatedLane ELSE lanes[i]]

isLaneReadyToResolve(lane) == Len(lane.player1.cards) = 3 /\ Len(lane.player2.cards) = 3

----------------------------------------------------------------------------
(* state.ts: suit effects                                                  *)

EFFECT_VALUES == [low |-> 7, mid |-> 5, high |-> 3]

DAMAGE_SUITS == {"diamonds", "spades"}

HEALING_SUITS == {"hearts", "clubs"}

getEffectTier(card) ==
  LET value == cardValue(card)
  IN IF value >= 11 THEN "high" ELSE IF value >= 6 THEN "mid" ELSE "low"

isCardActive(card, ownerSuit) ==
  IF ownerSuit = NoSuit THEN FALSE
  ELSE IF CardOf(card).rank = "JOKER" THEN TRUE
  ELSE CardOf(card).suit = ownerSuit

getSuitEffectValue(card, ownerSuit) ==
  IF ~isCardActive(card, ownerSuit) THEN [damage |-> 0, healing |-> 0]
  ELSE LET effectValue == EFFECT_VALUES[getEffectTier(card)]
       IN IF ownerSuit \in DAMAGE_SUITS THEN [damage |-> effectValue, healing |-> 0]
          ELSE IF ownerSuit \in HEALING_SUITS THEN [damage |-> 0, healing |-> effectValue]
          ELSE [damage |-> 0, healing |-> 0]

RECURSIVE calculateLaneSuitEffects(_, _)
calculateLaneSuitEffects(cards, ownerSuit) ==
  IF cards = <<>> THEN [totalDamage |-> 0, totalHealing |-> 0]
  ELSE LET effect == getSuitEffectValue(Head(cards), ownerSuit)
           rest == calculateLaneSuitEffects(Tail(cards), ownerSuit)
       IN [totalDamage |-> effect.damage + rest.totalDamage,
           totalHealing |-> effect.healing + rest.totalHealing]

applySuitEffectsToLaneDamage_DamageFloor(baseDamage, winnerDamageBonus, loserHealing) ==
  LET totalDamage == baseDamage + winnerDamageBonus
      afterHealing == totalDamage - loserHealing
  IN IF afterHealing <= 0
       THEN [finalDamage |-> 1, healingOverflow |-> 0 - afterHealing]
       ELSE [finalDamage |-> afterHealing, healingOverflow |-> 0]

applySuitEffectsToLaneDamage(baseDamage, winnerDamageBonus, loserHealing) ==
  LET totalDamage == baseDamage + winnerDamageBonus
      afterHealing == totalDamage - loserHealing
  IN IF afterHealing < 0
       THEN [finalDamage |-> 0, healingOverflow |-> 0 - afterHealing]
       ELSE [finalDamage |-> afterHealing, healingOverflow |-> 0]

----------------------------------------------------------------------------
(* reducer.ts                                                              *)

INITIAL_HAND_SIZE == 5
CARDS_TO_DRAW == 3
CARDS_PER_TURN == 3
MAX_CARDS_PER_LANE == 3

ALL_SUITS == <<"hearts", "diamonds", "clubs", "spades">>

\* aiSuit is availableSuits[Math.floor(Math.random() * availableSuits.length)].
handleSelectSuit(s, playerSuit, aiSuit) ==
  IF s.phase # "SuitSelection" THEN s
  ELSE [s EXCEPT !.phase = "InitialFlip", !.player1Suit = playerSuit, !.player2Suit = aiSuit]

\* The suits handleSelectSuit can draw for the AI.
availableSuits(playerSuit) == SelectSeq(ALL_SUITS, LAMBDA x : x # playerSuit)

\* A game-over check that ends the game for player 1 whenever some HP is 0
\* or less.
checkGameOver_FirstPlayerWins(s) ==
  IF s.player1.hp <= 0 \/ s.player2.hp <= 0
    THEN [over |-> TRUE, state |-> [s EXCEPT !.phase = "Finished", !.winner = 1]]
    ELSE [over |-> FALSE, state |-> s]

\* A check that ends the game without naming a winner.
checkGameOver_NoWinner(s) ==
  IF s.player1.hp <= 0 \/ s.player2.hp <= 0
    THEN [over |-> TRUE,
          state |-> [s EXCEPT !.phase = IF s.player1.hp = s.player2.hp
                                         THEN "SuddenDeath" ELSE "Finished"]]
    ELSE [over |-> FALSE, state |-> s]

\* checkGameOver: over is FALSE, and state is s, where the code returns null.
checkGameOver(s) ==
  LET hp1 == s.player1.hp
      hp2 == s.player2.hp
  IN IF hp1 <= 0 \/ hp2 <= 0
       THEN IF hp1 <= 0 /\ hp2 > 0
              THEN [over |-> TRUE, state |-> [s EXCEPT !.phase = "Finished", !.winner = 2]]
            ELSE IF hp2 <= 0 /\ hp1 > 0
              THEN [over |-> TRUE, state |-> [s EXCEPT !.phase = "Finished", !.winner = 1]]
            ELSE IF hp1 > hp2
              THEN [over |-> TRUE, state |-> [s EXCEPT !.phase = "Finished", !.winner = 1]]
            ELSE IF hp2 > hp1
              THEN [over |-> TRUE, state |-> [s EXCEPT !.phase = "Finished", !.winner = 2]]
            ELSE [over |-> TRUE, state |-> [s EXCEPT !.phase = "SuddenDeath"]]
       ELSE [over |-> FALSE, state |-> s]

\* One pass of the while loop of handleInitialFlipStep that flips c1 against
\* c2 and finds a winner.
FlipWon(player1Deck, player2Deck, c1, c2, value1, value2) ==
  [player1Deck |-> Tail(player1Deck), player2Deck |-> Tail(player2Deck),
   player1Card |-> c1, player2Card |-> c2,
   winner |-> IF value1 > value2 THEN 1 ELSE 2,
   damageToDeal |-> IF value1 > value2 THEN value1 - value2 ELSE value2 - value1]

RECURSIVE FlipLoop(_, _, _, _)
\* The while loop of handleInitialFlipStep: winner 0 is null, a card -1 is null.
FlipLoop(player1Deck, player2Deck, player1Card, player2Card) ==
  IF Len(player1Deck) > 0 /\ Len(player2Deck) > 0
    THEN IF cardValue(player1Deck[1]) # cardValue(player2Deck[1])
           THEN FlipWon(player1Deck, player2Deck, player1Deck[1], player2Deck[1],
                        cardValue(player1Deck[1]), cardValue(player2Deck[1]))
           ELSE FlipLoop(Tail(player1Deck), Tail(player2Deck), player1Deck[1], player2Deck[1])
    ELSE [player1Deck |-> player1Deck, player2Deck |-> player2Deck,
          player1Card |-> player1Card, player2Card |-> player2Card,
          winner |-> 0, damageToDeal |-> 0]

\* handleInitialFlipStep after its loop; r holds the loop's variables.
FlipOutcome(s, r) ==
  IF r.player1Card = -1 \/ r.player2Card = -1 THEN s
  ELSE [s EXCEPT !.phase = "InitialFlipResult",
                 !.player1.deck = r.player1Deck,
                 !.player2.deck = r.player2Deck,
                 !.flipResult = [player1Card |-> r.player1Card,
                                 player2Card |-> r.player2Card,
                                 winner |-> IF r.winner = 0 THEN 1 ELSE r.winner,
                                 damage |-> r.damageToDeal]]

handleInitialFlipStep(s) ==
  IF s.phase # "InitialFlip" THEN s
  ELSE FlipOutcome(s, FlipLoop(s.player1.deck, s.player2.deck, -1, -1))

\* A start of the turns in which the loser of the flip moves first.
StartMain_LoserMovesFirst(s, player1, player2, discardPile, fieldControlSuit, gameOver) ==
  IF gameOver.over THEN gameOver.state
  ELSE [s EXCEPT !.phase = "Main",
                 !.player1 = drawCards(player1, INITIAL_HAND_SIZE),
                 !.player2 = drawCards(player2, INITIAL_HAND_SIZE),
                 !.discardPile = discardPile,
                 !.currentPlayer = 3 - s.flipResult.winner,
                 !.cardsPlayedThisTurn = 0,
                 !.flipResult = NoFlipResult,
                 !.fieldControlSuit = fieldControlSuit,
                 !.pendingResolutionLanes = <<>>]

\* handleContinueFromFlip once the damage is applied and the flipped cards
\* are on the discard pile.
StartMain(s, player1, player2, discardPile, fieldControlSuit, gameOver) ==
  IF gameOver.over THEN gameOver.state
  ELSE [s EXCEPT !.phase = "Main",
                 !.player1 = drawCards(player1, INITIAL_HAND_SIZE),
                 !.player2 = drawCards(player2, INITIAL_HAND_SIZE),
                 !.discardPile = discardPile,
                 !.currentPlayer = s.flipResult.winner,
                 !.cardsPlayedThisTurn = 0,
                 !.flipResult = NoFlipResult,
                 !.fieldControlSuit = fieldControlSuit,
                 !.pendingResolutionLanes = <<>>]

handleContinueFromFlip(s) ==
  IF s.phase # "InitialFlipResult" \/ s.flipResult = NoFlipResult THEN s
  ELSE LET f == s.flipResult
           player1 == IF f.winner = 1 THEN s.player1 ELSE applyDamage(s.player1, f.damage)
           player2 == IF f.winner = 1 THEN applyDamage(s.player2, f.damage) ELSE s.player2
           discardPile == s.discardPile \o <<f.player1Card, f.player2Card>>
           fieldControlSuit == IF f.winner = 1 THEN s.player1Suit ELSE s.player2Suit
       IN StartMain(s, player1, player2, discardPile, fieldControlSuit,
                    checkGameOver([s EXCEPT !.player1 = player1, !.player2 = player2,
                                            !.discardPile = discardPile,
                                            !.flipResult = NoFlipResult,
                                            !.fieldControlSuit = fieldControlSuit]))

\* What the loser of a lane gets: the final damage when positive, then the
\* healing overflow when positive.
ApplyLaneEffects(player, effects) ==
  [(IF effects.finalDamage > 0 THEN applyDamage(player, effects.finalDamage) ELSE player)
     EXCEPT !.hp = IF effects.healingOverflow > 0 THEN @ + effects.healingOverflow ELSE @]

\* A resolution in which the winner of the lane gains its own healing.
SettleLane_WinnerHeals(s, lane, p1Total, p2Total, p1Effects, p2Effects) ==
  [s EXCEPT
     !.player1 = IF p2Total > p1Total
                   THEN ApplyLaneEffects(@, applySuitEffectsToLaneDamage(
                          p2Total - p1Total, p2Effects.totalDamage, p1Effects.totalHealing))
                   ELSE IF p1Total > p2Total
                     THEN [@ EXCEPT !.hp = @ + p1Effects.totalHealing]
                   ELSE @,
     !.player2 = IF p1Total > p2Total
                   THEN ApplyLaneEffects(@, applySuitEffectsToLaneDamage(
                          p1Total - p2Total, p1Effects.totalDamage, p2Effects.totalHealing))
                   ELSE IF p2Total > p1Total
                     THEN [@ EXCEPT !.hp = @ + p2Effects.totalHealing]
                   ELSE @,
     !.lanes = updateLane(s.lanes, [lane EXCEPT !.player1 = [cards |-> <<>>],
                                                !.player2 = [cards |-> <<>>]]),
     !.discardPile = s.discardPile \o lane.player1.cards \o lane.player2.cards]

\* resolveLane once the lane is found and the totals and suit effects are
\* computed.
SettleLane(s, lane, p1Total, p2Total, p1Effects, p2Effects) ==
  [s EXCEPT
     !.player1 = IF p2Total > p1Total
                   THEN ApplyLaneEffects(@, applySuitEffectsToLaneDamage(
                          p2Total - p1Total, p2Effects.totalDamage, p1Effects.totalHealing))
                   ELSE @,
     !.player2 = IF p1Total > p2Total
                   THEN ApplyLaneEffects(@, applySuitEffectsToLaneDamage(
                          p1Total - p2Total, p1Effects.totalDamage, p2Effects.totalHealing))
                   ELSE @,
     !.lanes = updateLane(s.lanes, [lane EXCEPT !.player1 = [cards |-> <<>>],
                                                !.player2 = [cards |-> <<>>]]),
     !.discardPile = s.discardPile \o lane.player1.cards \o lane.player2.cards]

\* The lane findLane returns (only asked where there is one).
LaneAt(s, laneId) == s.lanes[findLane(s.lanes, laneId)]

resolveLane(s, laneId) ==
  IF findLane(s.lanes, laneId) = 0 THEN s
  ELSE SettleLane(s, LaneAt(s, laneId),
                  calculateLaneTotal(LaneAt(s, laneId).player1.cards),
                  calculateLaneTotal(LaneAt(s, laneId).player2.cards),
                  calculateLaneSuitEffects(LaneAt(s, laneId).player1.cards, s.player1Suit),
                  calculateLaneSuitEffects(LaneAt(s, laneId).player2.cards, s.player2Suit))

\* pendingResolutionLanes.filter(p => p.laneId !== laneId)
dropPending(pending, laneId) == SelectSeq(pending, LAMBDA p : p.laneId # laneId)

\* state.currentPlayer === 1 ? state.player1 : state.player2
CurrentPlayerState(s) == IF s.currentPlayer = 1 THEN s.player1 ELSE s.player2

\* state.currentPlayer === 1 ? lane.player1 : lane.player2
PlayerSide(s, lane) == IF s.currentPlayer = 1 THEN lane.player1 ELSE lane.player2

\* state.currentPlayer === 1 ? lane.player2 : lane.player1
OpponentSide(s, lane) == IF s.currentPlayer = 1 THEN lane.player2 ELSE lane.player1

\* A check of the player's side that looks at the room left only.
SideTakes_AnyValue(playerSide, cardId) ==
  ~(Len(playerSide.cards) >= MAX_CARDS_PER_LANE)

\* The checks of handlePlayCardToLane and canPlayCardToLane on the player's
\* side of the lane: room left, and no card below the last one.
SideTakes(playerSide, cardId) ==
  /\ ~(Len(playerSide.cards) >= MAX_CARDS_PER_LANE)
  /\ ~(Len(playerSide.cards) > 0
       /\ cardValue(cardId) < cardValue(playerSide.cards[Len(playerSide.cards)]))

\* A placement that puts the card on both sides of the lane.
PlaceCard_OnBothSides(s, cardId, lane) ==
  [s EXCEPT
     !.player1 = IF s.currentPlayer = 1
                   THEN [@ EXCEPT !.hand = removeCardById(@, cardId)] ELSE @,
     !.player2 = IF s.currentPlayer = 2
                   THEN [@ EXCEPT !.hand = removeCardById(@, cardId)] ELSE @,
     !.lanes = updateLane(s.lanes,
                 [lane EXCEPT !.player1 = [cards |-> Append(@.cards, cardId)],
                              !.player2 = [cards |-> Append(@.cards, cardId)]]),
     !.cardsPlayedThisTurn = s.cardsPlayedThisTurn + 1]

\* newState of handlePlayCardToLane: the card moved from the hand to the lane.
PlaceCard(s, cardId, lane) ==
  [s EXCEPT
     !.player1 = IF s.currentPlayer = 1
                   THEN [@ EXCEPT !.hand = removeCardById(@, cardId)] ELSE @,
     !.player2 = IF s.currentPlayer = 2
                   THEN [@ EXCEPT !.hand = removeCardById(@, cardId)] ELSE @,
     !.lanes = updateLane(s.lanes,
                 [lane EXCEPT
                    !.player1 = IF s.currentPlayer = 1
                                  THEN [cards |-> Append(@.cards, cardId)] ELSE @,
                    !.player2 = IF s.currentPlayer = 2
                                  THEN [cards |-> Append(@.cards, cardId)] ELSE @]),
     !.cardsPlayedThisTurn = s.cardsPlayedThisTurn + 1]

ResolveNow_KeepsPending(resolved, laneId) == checkGameOver(resolved).state

\* The lane is resolved, taken off the pending list, and the game-over check
\* decides what is returned.
ResolveNow(resolved, laneId) ==
  checkGameOver([resolved EXCEPT !.pendingResolutionLanes = dropPending(@, laneId)]).state

\* handlePlayCardToLane after the card is placed: s is the state before.
\* The code resolves at once in two branches that do the same: the opponent's
\* side is full too, or the lane already has a pending entry.
AfterPlay(s, newState, laneId) ==
  IF Len(PlayerSide(s, LaneAt(newState, laneId)).cards) = MAX_CARDS_PER_LANE
    THEN IF \/ Len(OpponentSide(s, LaneAt(newState, laneId)).cards) = MAX_CARDS_PER_LANE
            \/ \E k \in 1..Len(newState.pendingResolutionLanes) :
                  newState.pendingResolutionLanes[k].laneId = laneId
           THEN ResolveNow(resolveLane(newState, laneId), laneId)
         ELSE [newState EXCEPT !.pendingResolutionLanes =
                 Append(@, [laneId |-> laneId,
                            filledByPlayer |-> s.currentPlayer,
                            turnsUntilResolution |-> 2])]
    ELSE newState

handlePlayCardToLane(s, cardId, laneId) ==
  IF s.phase # "Main" THEN s
  ELSE IF ~findCardById(CurrentPlayerState(s).hand, cardId) THEN s
  ELSE IF findLane(s.lanes, laneId) = 0 THEN s
  ELSE IF ~SideTakes(PlayerSide(s, LaneAt(s, laneId)), cardId) THEN s
  ELSE AfterPlay(s, PlaceCard(s, cardId, LaneAt(s, laneId)), laneId)

\* newState of handleDiscardCard.
DiscardFromHand(s, cardId) ==
  [s EXCEPT
     !.player1 = IF s.currentPlayer = 1
                   THEN applyDamage([@ EXCEPT !.hand = removeCardById(@, cardId)],
                                    cardValue(cardId))
                   ELSE @,
     !.player2 = IF s.currentPlayer = 2
                   THEN applyDamage([@ EXCEPT !.hand = removeCardById(@, cardId)],
                                    cardValue(cardId))
                   ELSE @,
     !.discardPile = Append(s.discardPile, cardId),
     !.cardsPlayedThisTurn = s.cardsPlayedThisTurn + 1]

\* A discard handler without the phase guard.
handleDiscardCard_AnyPhase(s, cardId) ==
  IF ~findCardById(CurrentPlayerState(s).hand, cardId) THEN s
  ELSE checkGameOver(DiscardFromHand(s, cardId)).state

handleDiscardCard(s, cardId) ==
  IF s.phase # "Main" THEN s
  ELSE IF ~findCardById(CurrentPlayerState(s).hand, cardId) THEN s
  ELSE checkGameOver(DiscardFromHand(s, cardId)).state

RECURSIVE ResolveLoop(_, _)
\* One pass of the loop over lanesToResolve, after resolveLane and
\* checkGameOver.
ResolveStep(gameOver, lanesToResolve) ==
  IF gameOver.over THEN [returned |-> TRUE, state |-> gameOver.state]
  ELSE ResolveLoop(gameOver.state, lanesToResolve)

\* The loop over lanesToResolve: returned is TRUE where the loop returns the
\* game-over state out of processPendingLanesForPlayer.
ResolveLoop(s, lanesToResolve) ==
  IF lanesToResolve = <<>> THEN [returned |-> FALSE, state |-> s]
  ELSE ResolveStep(checkGameOver(resolveLane(s, Head(lanesToResolve).laneId)),
                   Tail(lanesToResolve))

\* The end of processPendingLanesForPlayer: loop is what its second loop
\* leaves.
UpdatePending(loop, pendingResolutionLanes) ==
  IF loop.returned THEN loop.state
  ELSE [loop.state EXCEPT !.pendingResolutionLanes = pendingResolutionLanes]

\* lanesToKeep: the entries of the player that are not due, one turn less.
LanesToKeep(playerPendingLanes) ==
  LET stillPending ==
        SelectSeq(playerPendingLanes, LAMBDA p : ~(p.turnsUntilResolution - 1 <= 0))
  IN [k \in 1..Len(stillPending) |->
        [stillPending[k] EXCEPT !.turnsUntilResolution = @ - 1]]

processPendingLanesForPlayer(s, player) ==
  LET playerPendingLanes ==
        SelectSeq(s.pendingResolutionLanes, LAMBDA p : p.filledByPlayer = player)
      otherPendingLanes ==
        SelectSeq(s.pendingResolutionLanes, LAMBDA p : p.filledByPlayer # player)
      lanesToResolve ==
        SelectSeq(playerPendingLanes, LAMBDA p : p.turnsUntilResolution - 1 <= 0)
  IN UpdatePending(ResolveLoop(s, lanesToResolve),
                   otherPendingLanes \o LanesToKeep(playerPendingLanes))

PassTurn_WhenOneIsDone(s, updated, discardPile, player1FinalTurnDone, player2FinalTurnDone) ==
  IF player1FinalTurnDone \/ player2FinalTurnDone
    THEN [s EXCEPT !.phase = "EndOfRoundResolving",
                   !.player1 = IF s.currentPlayer = 1 THEN updated ELSE @,
                   !.player2 = IF s.currentPlayer = 1 THEN @ ELSE updated,
                   !.discardPile = discardPile,
                   !.player1FinalTurnDone = player1FinalTurnDone,
                   !.player2FinalTurnDone = player2FinalTurnDone,
                   !.cardsPlayedThisTurn = 0,
                   !.pendingResolutionLanes = <<>>]
    ELSE processPendingLanesForPlayer(
           [s EXCEPT !.player1 = IF s.currentPlayer = 1 THEN updated ELSE @,
                     !.player2 = IF s.currentPlayer = 1 THEN @ ELSE updated,
                     !.discardPile = discardPile,
                     !.currentPlayer = IF s.currentPlayer = 1 THEN 2 ELSE 1,
                     !.player1FinalTurnDone = player1FinalTurnDone,
                     !.player2FinalTurnDone = player2FinalTurnDone,
                     !.cardsPlayedThisTurn = 0],
           IF s.currentPlayer = 1 THEN 2 ELSE 1)

\* handleEndTurn after the draw step: updated is the current player and
\* discardPile the discard pile it leaves.
PassTurn(s, updated, discardPile, player1FinalTurnDone, player2FinalTurnDone) ==
  IF player1FinalTurnDone /\ player2FinalTurnDone
    THEN [s EXCEPT !.phase = "EndOfRoundResolving",
                   !.player1 = IF s.currentPlayer = 1 THEN updated ELSE @,
                   !.player2 = IF s.currentPlayer = 1 THEN @ ELSE updated,
                   !.discardPile = discardPile,
                   !.player1FinalTurnDone = player1FinalTurnDone,
                   !.player2FinalTurnDone = player2FinalTurnDone,
                   !.cardsPlayedThisTurn = 0,
                   !.pendingResolutionLanes = <<>>]
    ELSE processPendingLanesForPlayer(
           [s EXCEPT !.player1 = IF s.currentPlayer = 1 THEN updated ELSE @,
                     !.player2 = IF s.currentPlayer = 1 THEN @ ELSE updated,
                     !.discardPile = discardPile,
                     !.currentPlayer = IF s.currentPlayer = 1 THEN 2 ELSE 1,
                     !.player1FinalTurnDone = player1FinalTurnDone,
                     !.player2FinalTurnDone = player2FinalTurnDone,
                     !.cardsPlayedThisTurn = 0],
           IF s.currentPlayer = 1 THEN 2 ELSE 1)

\* An END_TURN whose draw step takes the last 1 or 2 cards of the deck into
\* the hand.
handleEndTurn_DrawsTheRest(s) ==
  IF s.phase # "Main" \/ s.cardsPlayedThisTurn < CARDS_PER_TURN THEN s
  ELSE
    LET playerState == CurrentPlayerState(s)
        draws == Len(playerState.deck) >= CARDS_TO_DRAW
    IN PassTurn(s,
                drawCards(playerState, CARDS_TO_DRAW),
                s.discardPile,
                IF ~draws /\ s.currentPlayer = 1 THEN TRUE ELSE s.player1FinalTurnDone,
                IF ~draws /\ s.currentPlayer # 1 THEN TRUE ELSE s.player2FinalTurnDone)

\* An END_TURN whose draw step leaves the last 1 or 2 cards in the deck.
handleEndTurn_KeepsTheRest(s) ==
  IF s.phase # "Main" \/ s.cardsPlayedThisTurn < CARDS_PER_TURN THEN s
  ELSE
    LET playerState == CurrentPlayerState(s)
        draws == Len(playerState.deck) >= CARDS_TO_DRAW
    IN PassTurn(s,
                IF draws THEN drawCards(playerState, CARDS_TO_DRAW) ELSE playerState,
                s.discardPile,
                IF ~draws /\ s.currentPlayer = 1 THEN TRUE ELSE s.player1FinalTurnDone,
                IF ~draws /\ s.currentPlayer # 1 THEN TRUE ELSE s.player2FinalTurnDone)

handleEndTurn(s) ==
  IF s.phase # "Main" \/ s.cardsPlayedThisTurn < CARDS_PER_TURN THEN s
  ELSE
    LET playerState == CurrentPlayerState(s)
        draws == Len(playerState.deck) >= CARDS_TO_DRAW
        dumps == ~draws /\ Len(playerState.deck) > 0
    IN PassTurn(s,
                IF draws THEN drawCards(playerState, CARDS_TO_DRAW)
                ELSE IF dumps THEN [playerState EXCEPT !.deck = <<>>]
                ELSE playerState,
                IF dumps THEN s.discardPile \o playerState.deck ELSE s.discardPile,
                IF ~draws /\ s.currentPlayer = 1 THEN TRUE ELSE s.player1FinalTurnDone,
                IF ~draws /\ s.currentPlayer # 1 THEN TRUE ELSE s.player2FinalTurnDone)

RECURSIVE ResolveAllLanes_ChecksEachLane(_, _)
\* A loop that stops at the first lane that leaves a player without HP.
ResolveAllLanes_ChecksEachLane(s, lanes) ==
  IF lanes = <<>> THEN s
  ELSE IF Len(Head(lanes).player1.cards) > 0 \/ Len(Head(lanes).player2.cards) > 0
    THEN LET r == resolveLane(s, Head(lanes).id)
         IN IF r.player1.hp <= 0 \/ r.player2.hp <= 0 THEN r
            ELSE ResolveAllLanes_ChecksEachLane(r, Tail(lanes))
    ELSE ResolveAllLanes_ChecksEachLane(s, Tail(lanes))

RECURSIVE ResolveAllLanes(_, _)
\* The loop of handleResolveEndOfRound over the lanes of the state.
ResolveAllLanes(s, lanes) ==
  IF lanes = <<>> THEN s
  ELSE IF Len(Head(lanes).player1.cards) > 0 \/ Len(Head(lanes).player2.cards) > 0
    THEN ResolveAllLanes(resolveLane(s, Head(lanes).id), Tail(lanes))
    ELSE ResolveAllLanes(s, Tail(lanes))

\* handleResolveEndOfRound after its loop: gameOver is checkGameOver of the
\* state the loop leaves (its state is that state where the game goes on).
EndRound(gameOver, perm) ==
  IF gameOver.over THEN gameOver.state
  ELSE IF gameOver.state.player1.hp = gameOver.state.player2.hp
    THEN [gameOver.state EXCEPT !.phase = "SuddenDeath"]
  ELSE startNewRound(gameOver.state, perm)

\* perm is the permutation drawn by the shuffle of startNewRound.
handleResolveEndOfRound(s, perm) ==
  IF s.phase # "EndOfRoundResolving" THEN s
  ELSE EndRound(checkGameOver(ResolveAllLanes(s, s.lanes)), perm)

RECURSIVE SuddenDeathLoop(_, _)
\* The while loop of handleSuddenDeathStep from position index (0-based);
\* 0 is null.
SuddenDeathLoop(allCards, index) ==
  IF index + 1 < Len(allCards)
    THEN LET v1 == cardValue(allCards[index + 1])
             v2 == cardValue(allCards[index + 2])
         IN IF v1 > v2 THEN 1
            ELSE IF v2 > v1 THEN 2
            ELSE SuddenDeathLoop(allCards, index + 2)
    ELSE 0

\* An outcome that leaves the winner null when no pair decides.
SuddenDeathOutcome_NoDefault(s, allCards, winner) ==
  [s EXCEPT !.phase = "Finished",
            !.winner = winner,
            !.lanes = createEmptyLanes,
            !.discardPile = allCards]

\* handleSuddenDeathStep after its loop: winner 0 is null.
SuddenDeathOutcome(s, allCards, winner) ==
  [s EXCEPT !.phase = "Finished",
            !.winner = IF winner = 0 THEN 1 ELSE winner,
            !.lanes = createEmptyLanes,
            !.discardPile = allCards]

\* perm is the permutation drawn by shuffle(createDeck()).
handleSuddenDeathStep(s, perm) ==
  IF s.phase # "SuddenDeath" THEN s
  ELSE SuddenDeathOutcome(s, shuffle(createDeckIds, perm),
                          SuddenDeathLoop(shuffle(createDeckIds, perm), 0))

\* A query that does not look at the cards already on the player's side.
canPlayCardToLane_AnyLane(s, cardId, laneId) ==
  IF s.phase # "Main" THEN FALSE
  ELSE IF ~findCardById(CurrentPlayerState(s).hand, cardId) THEN FALSE
  ELSE findLane(s.lanes, laneId) # 0

canPlayCardToLane(s, cardId, laneId) ==
  IF s.phase # "Main" THEN FALSE
  ELSE IF ~findCardById(CurrentPlayerState(s).hand, cardId) THEN FALSE
  ELSE IF findLane(s.lanes, laneId) = 0 THEN FALSE
  ELSE SideTakes(PlayerSide(s, LaneAt(s, laneId)), cardId)

\* A query that allows the end of the turn at exactly three cards only.
canEndTurn_ExactlyThree(s) == s.phase = "Main" /\ s.cardsPlayedThisTurn = CARDS_PER_TURN

canEndTurn(s) == s.phase = "Main" /\ s.cardsPlayedThisTurn >= CARDS_PER_TURN

\* gameReducer: action is [type, suit, cardId, laneId]; random holds what the
\* handler draws from Math.random, the AI's suit and the permutation of a
\* shuffle.
gameReducer(s, action, random) ==
  CASE action.type = "START_NEW_GAME" -> initializeNewGame(random.perm)
    [] action.type = "SELECT_SUIT" -> handleSelectSuit(s, action.suit, random.aiSuit)
    [] action.type = "INITIAL_FLIP_STEP" -> handleInitialFlipStep(s)
    [] action.type = "CONTINUE_FROM_FLIP" -> handleContinueFromFlip(s)
    [] action.type = "PLAY_CARD_TO_LANE" -> handlePlayCardToLane(s, action.cardId, action.laneId)
    [] action.type = "DISCARD_CARD" -> handleDiscardCard(s, action.cardId)
    [] action.type = "END_TURN" -> handleEndTurn(s)
    [] action.type = "RESOLVE_LANE" -> resolveLane(s, action.laneId)
    [] action.type = "RESOLVE_END_OF_ROUND" -> handleResolveEndOfRound(s, random.perm)
    [] action.type = "SUDDEN_DEATH_STEP" -> handleSuddenDeathStep(s, random.perm)
    [] OTHER -> s

----------------------------------------------------------------------------
(* ai.ts                                                                   *)

\* getAIMove returning null.
NoMove == [type |-> "none", cardId |-> -1, laneId |-> "none"]

RECURSIVE InsertByValue(_, _)
\* One step of the stable sort by cardValue: card goes behind every card of
\* the sorted list whose value is not greater.
InsertByValue(sorted, card) ==
  IF sorted = <<>> THEN <<card>>
  ELSE IF cardValue(Head(sorted)) <= cardValue(card)
    THEN <<Head(sorted)>> \o InsertByValue(Tail(sorted), card)
  ELSE <<card>> \o sorted

RECURSIVE SortByValue(_)
\* [...hand].sort((a, b) => cardValue(a) - cardValue(b)), a stable sort.
SortByValue(hand) ==
  IF hand = <<>> THEN <<>>
  ELSE InsertByValue(SortByValue(SubSeq(hand, 1, Len(hand) - 1)), hand[Len(hand)])

RECURSIVE FirstLegalPlay(_, _, _)
\* for (lane of lanes) for (card of sortedHand) if (canPlayCardToLane) return.
FirstLegalPlay(s, lanes, sortedHand) ==
  IF lanes = <<>> THEN NoMove
  ELSE LET lane == Head(lanes)
           legal == {k \in 1..Len(sortedHand) : canPlayCardToLane(s, sortedHand[k], lane.id)}
       IN IF legal # {}
            THEN [type |-> "lane",
                  cardId |-> sortedHand[CHOOSE k \in legal : \A j \in legal : k <= j],
                  laneId |-> lane.id]
            ELSE FirstLegalPlay(s, Tail(lanes), sortedHand)

findUrgentLanePlay(s, sortedHand) ==
  FirstLegalPlay(s, SelectSeq(s.lanes, LAMBDA lane :
                      Len(lane.player1.cards) = MAX_CARDS_PER_LANE
                      /\ Len(lane.player2.cards) < MAX_CARDS_PER_LANE),
                 sortedHand)

\* The first of the moves that is not null.
FirstMove(first, second, third) ==
  IF first # NoMove THEN first ELSE IF second # NoMove THEN second ELSE third

\* The lanes where the AI has count cards: those where player 1 has cards
\* first, then those where player 1 has none.
ContestedFirst(lanes, count) ==
  SelectSeq(lanes, LAMBDA lane : Len(lane.player2.cards) = count /\ Len(lane.player1.cards) > 0)
    \o SelectSeq(lanes, LAMBDA lane : Len(lane.player2.cards) = count /\ Len(lane.player1.cards) = 0)

\* A planner that starts new lanes before it builds on the lanes it has cards
\* on.
findStrategicLanePlay_StartsFirst(s, sortedHand) ==
  FirstMove(FirstLegalPlay(s, ContestedFirst(s.lanes, 0), sortedHand),
            FirstLegalPlay(s, ContestedFirst(s.lanes, 1), sortedHand),
            FirstLegalPlay(s, SelectSeq(s.lanes, LAMBDA lane : Len(lane.player2.cards) = 2),
                           sortedHand))

findStrategicLanePlay(s, sortedHand) ==
  FirstMove(FirstLegalPlay(s, SelectSeq(s.lanes, LAMBDA lane : Len(lane.player2.cards) = 2),
                           sortedHand),
            FirstLegalPlay(s, ContestedFirst(s.lanes, 1), sortedHand),
            FirstLegalPlay(s, ContestedFirst(s.lanes, 0), sortedHand))

\* A planner whose last resort is the discard of its highest card.
PlanMove_DiscardsHighest(s, sortedHand) ==
  FirstMove(findUrgentLanePlay(s, sortedHand),
            findStrategicLanePlay(s, sortedHand),
            [type |-> "discard", cardId |-> sortedHand[Len(sortedHand)], laneId |-> "none"])

\* getAIMove once the hand is sorted.
PlanMove(s, sortedHand) ==
  FirstMove(findUrgentLanePlay(s, sortedHand),
            findStrategicLanePlay(s, sortedHand),
            [type |-> "discard", cardId |-> sortedHand[1], laneId |-> "none"])

\* A planner that puts its lowest card on the first lane whatever the lane
\* holds.
getAIMove_FirstLane(s) ==
  IF Len(s.player2.hand) = 0 THEN NoMove
  ELSE [type |-> "lane", cardId |-> SortByValue(s.player2.hand)[1], laneId |-> LANE_IDS[1]]

getAIMove(s) ==
  IF Len(s.player2.hand) = 0 THEN NoMove
  ELSE PlanMove(s, SortByValue(s.player2.hand))

simulateMove(s, move) ==
  IF ~findCardById(s.player2.hand, move.cardId) THEN s
  ELSE LET cardIndex == CHOOSE k \in 1..Len(s.player2.hand) :
                          s.player2.hand[k] = move.cardId
                          /\ \A j \in 1..(k - 1) : s.player2.hand[j] # move.cardId
           card == s.player2.hand[cardIndex]
           hand == SubSeq(s.player2.hand, 1, cardIndex - 1)
                     \o SubSeq(s.player2.hand, cardIndex + 1, Len(s.player2.hand))
       IN IF move.type = "discard"
            THEN [s EXCEPT !.player2.hand = hand,
                           !.player2.hp = s.player2.hp - cardValue(card),
                           !.discardPile = Append(s.discardPile, card),
                           !.cardsPlayedThisTurn = s.cardsPlayedThisTurn + 1]
            ELSE [s EXCEPT !.player2.hand = hand,
                           !.lanes = [k \in 1..Len(s.lanes) |->
                                        IF s.lanes[k].id # move.laneId THEN s.lanes[k]
                                        ELSE [s.lanes[k] EXCEPT !.player2 =
                                                [cards |-> Append(s.lanes[k].player2.cards, card)]]],
                           !.cardsPlayedThisTurn = s.cardsPlayedThisTurn + 1]

RECURSIVE AITurnLoop(_, _)
\* A loop that plans every move on the state the turn starts from.
AITurnStep_NoSimulation(currentState, move, left) ==
  IF move = NoMove THEN <<>>
  ELSE <<move>> \o AITurnLoop(currentState, left - 1)

\* One pass of the for loop of executeAITurn, after getAIMove.
AITurnStep(currentState, move, left) ==
  IF move = NoMove THEN <<>>
  ELSE <<move>> \o AITurnLoop(simulateMove(currentState, move), left - 1)

\* The for loop of executeAITurn with left iterations to go.
AITurnLoop(currentState, left) ==
  IF left = 0 THEN <<>>
  ELSE AITurnStep(currentState, getAIMove(currentState), left)

executeAITurn(s) == AITurnLoop(s, 3)

----------------------------------------------------------------------------
(* The shuffles explored                                                   *)

\* The cards of items that are not in taken, in the order of items.
Without(items, taken) == SelectSeq(items, LAMBDA c : \A k \in 1..Len(taken) : taken[k] # c)

\* The permutation that deals top1 to the head of player 1's deck and top2
\* to the head of player 2's deck, the other cards following in the order
\* of createDeck.
Deal(top1, top2) ==
  LET rest == Without(createDeckIds, top1 \o top2)
      n1 == CARDS_PER_PLAYER - Len(top1)
      deck == top1 \o SubSeq(rest, 1, n1) \o top2 \o SubSeq(rest, n1 + 1, Len(rest))
  IN [i \in 1..Len(deck) |-> deck[i] + 1]

\* The id of the card of a suit (0 hearts, 1 diamonds, 2 clubs, 3 spades)
\* and a value 2..14 in createDeck.
Id(suitIndex, value) == 13 * suitIndex + value - 2

IdentityPerm(n) == [i \in 1..n |-> i]

ReversePerm(n) == [i \in 1..n |-> n + 1 - i]

\* Player 1 loses the flip by 13 and holds three jokers and three aces;
\* player 2 moves first.
SuicideDeal ==
  Deal(<<Id(0, 2), 52, 53, 54, Id(0, 14), Id(1, 14), Id(2, 14)>>, <<55>>)

\* ties tied pairs on top of the two decks (hearts against diamonds from the
\* two up, then clubs against spades from value from up), then top1 and top2.
TiedDeal(ties, from, top1, top2) ==
  LET t1 == [k \in 1..ties |-> IF k <= 13 THEN Id(0, k + 1) ELSE Id(2, from + k - 14)]
      t2 == [k \in 1..ties |-> IF k <= 13 THEN Id(1, k + 1) ELSE Id(3, from + k - 14)]
  IN Deal(t1 \o top1, t2 \o top2)

\* 19 ties, then 8 against 9: each player is left with eight high cards,
\* player 2 moves first and the round ends with the fourth END_TURN.
HighTies ==
  TiedDeal(19, 2,
           <<Id(2, 8), Id(2, 10), Id(2, 11), Id(2, 12), Id(2, 13), Id(2, 14), 52, 53, Id(2, 9)>>,
           <<Id(3, 9), Id(3, 8), Id(3, 10), Id(3, 11), Id(3, 12), Id(3, 13), Id(3, 14), 54, 55>>)

\* 21 ties, then 4 against 2: each player is left with six low cards,
\* player 1 moves first and the round ends with the second END_TURN.
LowTies ==
  TiedDeal(21, 7,
           <<Id(2, 4), Id(2, 2), Id(2, 3), Id(2, 5), Id(2, 6), 52, 53>>,
           <<Id(3, 2), Id(3, 3), Id(3, 4), Id(3, 5), Id(3, 6), 54, 55>>)

\* Player 1 loses the flip by 13 and holds three aces, three nines, the
\* queen, king and ace of spades and a ten, in this order; player 2 moves
\* first with three kings and two jokers and draws a two, a three and a five.
LethalDeal ==
  Deal(<<Id(0, 2), Id(0, 14), Id(1, 14), Id(2, 14), Id(0, 9), Id(1, 9), Id(2, 9),
         Id(3, 12), Id(3, 13), Id(3, 14), Id(0, 10)>>,
       <<55, Id(0, 13), Id(1, 13), Id(2, 13), 52, 53,
         Id(3, 2), Id(1, 3), Id(2, 5)>>)

\* Player 1 loses the flip by 1 and holds twos, threes and fours; player 2
\* moves first with two fives, two sixes and a king and draws 7, 7, Q, then
\* 8, 8, 9, then 9, 10, J.
BlockedDeal ==
  Deal(<<Id(0, 5), Id(0, 2), Id(1, 2), Id(2, 2), Id(3, 2), Id(0, 3), Id(1, 3), Id(2, 3),
         Id(3, 3), Id(0, 4), Id(1, 4), Id(2, 4)>>,
       <<Id(0, 6), Id(1, 5), Id(2, 5), Id(1, 6), Id(2, 6), Id(0, 13),
         Id(0, 7), Id(1, 7), Id(0, 12), Id(0, 8), Id(1, 8), Id(0, 9),
         Id(1, 9), Id(0, 10), Id(0, 11)>>)

\* 25 ties, then the ace of clubs against a joker: each player is left with
\* two cards.
DeepTies == TiedDeal(25, 2, <<Id(2, 14)>>, <<54>>)

\* The games explored: the permutation START_NEW_GAME draws, the lanes
\* player 1 plays to (positions in LANE_IDS), and how many END_TURNs a round
\* and how many direct dispatches the game are explored with.
Games ==
  {[perm |-> SuicideDeal, lanes |-> 1..MaxLane, turns |-> MaxTurns, direct |-> MaxDirect],
   [perm |-> HighTies, lanes |-> 1..MaxLane, turns |-> MaxTurns, direct |-> 0],
   [perm |-> LowTies, lanes |-> 1..MaxLane, turns |-> MaxTurns, direct |-> MaxDirect]}

\* The game explored one turn and one direct dispatch further, player 1
\* playing to one lane.
LongGames ==
  {[perm |-> LethalDeal, lanes |-> {MaxLane}, turns |-> MaxTurns + 1,
    direct |-> MaxDirect + 1]}

\* The permutations the shuffle of startNewRound draws from, for n cards.
NewRoundPerms(n) == {IdentityPerm(n), ReversePerm(n)}

\* The permutation that lays the deck out in 28 pairs of equal value: hearts
\* against diamonds, clubs against spades, joker against joker.
AllTiesPerm ==
  [i \in 1..DECK_SIZE |->
     LET pair == (i - 1) \div 2
         second == (i - 1) % 2
     IN IF pair < 13 THEN Id(second, pair + 2) + 1
        ELSE IF pair < 26 THEN Id(2 + second, pair - 11) + 1
        ELSE i]

\* The permutations the shuffle of SUDDEN_DEATH_STEP draws from.
SuddenDeathPerms == {IdentityPerm(DECK_SIZE), ReversePerm(DECK_SIZE), AllTiesPerm}

----------------------------------------------------------------------------
(* The dispatch surface                                                    *)

NoRandom == [aiSuit |-> NoSuit, perm |-> <<>>]

Action(type) == [type |-> type, suit |-> NoSuit, cardId |-> -1, laneId |-> "none"]

\* The bounds used up so far: accepted END_TURNs of the round, direct
\* dispatches of the game, and how many of each the game allows.
NewUse(game) ==
  [turns |-> 0, direct |-> 0, lanes |-> game.lanes, maxTurns |-> game.turns,
   allowed |-> game.direct]

\* The cards player 1 picks from: the first MaxPick cards of the hand.
PickCards(hand) == {hand[k] : k \in 1..(IF Len(hand) < MaxPick THEN Len(hand) ELSE MaxPick)}

\* The card and lane inputs of PLAY_CARD_TO_LANE: player 1 picks a card and
\* one of the lanes of the game; player 2's plays are the planner's (GameBoard dispatches what
\* executeAITurn returns).
\* The planner's move when it is of the given type.
MovesOfType(move, type) == IF move.type = type THEN {move} ELSE {}

PlayInputs(s) ==
  IF s.currentPlayer = 1
    THEN {[cardId |-> c, laneId |-> LANE_IDS[l]] :
            c \in PickCards(s.player1.hand), l \in used.lanes}
    ELSE {[cardId |-> move.cardId, laneId |-> move.laneId] :
            move \in MovesOfType(getAIMove(s), "lane")}

DiscardInputs(s) ==
  IF s.currentPlayer = 1 THEN PickCards(s.player1.hand)
  ELSE {move.cardId : move \in MovesOfType(getAIMove(s), "discard")}

\* last is the last action that changed the state.
Record(action) == IF state' = state THEN last ELSE action

\* The bounds used up after a dispatch: nextUsed where it changed the state.
Use(nextUsed) == IF state' = state THEN used ELSE nextUsed

Init ==
  \E game \in Games :
    /\ state = initializeNewGame(game.perm)
    /\ last = Action("START_NEW_GAME")
    /\ used = NewUse(game)

StartNewGame ==
  \E game \in Games :
    /\ state' = gameReducer(state, Action("START_NEW_GAME"),
                            [NoRandom EXCEPT !.perm = game.perm])
    /\ last' = Action("START_NEW_GAME")
    /\ used' = NewUse(game)

SelectSuit ==
  \E suit \in {ALL_SUITS[k] : k \in 1..Len(ALL_SUITS)} :
    \E pick \in 1..Len(availableSuits(suit)) :
      /\ state' = gameReducer(state, [Action("SELECT_SUIT") EXCEPT !.suit = suit],
                              [NoRandom EXCEPT !.aiSuit = availableSuits(suit)[pick]])
      /\ last' = Record([Action("SELECT_SUIT") EXCEPT !.suit = suit])
      /\ UNCHANGED used

InitialFlipStep ==
  /\ state' = gameReducer(state, Action("INITIAL_FLIP_STEP"), NoRandom)
  /\ last' = Record(Action("INITIAL_FLIP_STEP"))
  /\ UNCHANGED used

ContinueFromFlip ==
  /\ state' = gameReducer(state, Action("CONTINUE_FROM_FLIP"), NoRandom)
  /\ last' = Record(Action("CONTINUE_FROM_FLIP"))
  /\ UNCHANGED used

CanDispatchDirect == used.direct < used.allowed

\* A play or discard beyond the third of a turn is a direct dispatch.
CanPlayMore == state.cardsPlayedThisTurn < CARDS_PER_TURN \/ CanDispatchDirect

UsePlay ==
  IF state.cardsPlayedThisTurn >= CARDS_PER_TURN
    THEN [used EXCEPT !.direct = @ + 1] ELSE used

PlayAction(in) ==
  [Action("PLAY_CARD_TO_LANE") EXCEPT !.cardId = in.cardId, !.laneId = in.laneId]

PlayCardToLane ==
  /\ CanPlayMore
  /\ \E in \in PlayInputs(state) :
       /\ state' = gameReducer(state, PlayAction(in), NoRandom)
       /\ last' = Record(PlayAction(in))
       /\ used' = Use(UsePlay)

DiscardAction(cardId) == [Action("DISCARD_CARD") EXCEPT !.cardId = cardId]

DiscardCard ==
  /\ CanPlayMore
  /\ \E cardId \in DiscardInputs(state) :
       /\ state' = gameReducer(state, DiscardAction(cardId), NoRandom)
       /\ last' = Record(DiscardAction(cardId))
       /\ used' = Use(UsePlay)

EndTurn ==
  /\ used.turns < used.maxTurns
  /\ state' = gameReducer(state, Action("END_TURN"), NoRandom)
  /\ last' = Record(Action("END_TURN"))
  /\ used' = Use([used EXCEPT !.turns = @ + 1])

ResolveAction(laneId) == [Action("RESOLVE_LANE") EXCEPT !.laneId = laneId]

\* RESOLVE_LANE during Main is a direct dispatch.
ResolveLane ==
  /\ state.phase # "Main" \/ CanDispatchDirect
  /\ \E l \in 1..Len(LANE_IDS) :
       /\ state' = gameReducer(state, ResolveAction(LANE_IDS[l]), NoRandom)
       /\ last' = Record(ResolveAction(LANE_IDS[l]))
       /\ used' = Use(IF state.phase = "Main" THEN [used EXCEPT !.direct = @ + 1] ELSE used)

\* A new round starts with its turns uncounted.
ResolveEndOfRound ==
  /\ state.roundNumber < MaxRounds
  /\ \E perm \in NewRoundPerms(Len(collectAllCards(state))) :
       /\ state' = gameReducer(state, Action("RESOLVE_END_OF_ROUND"),
                               [NoRandom EXCEPT !.perm = perm])
       /\ last' = Record(Action("RESOLVE_END_OF_ROUND"))
       /\ used' = Use([used EXCEPT !.turns = 0])

SuddenDeathStep ==
  \E perm \in SuddenDeathPerms :
    /\ state' = gameReducer(state, Action("SUDDEN_DEATH_STEP"), [NoRandom EXCEPT !.perm = perm])
    /\ last' = Record(Action("SUDDEN_DEATH_STEP"))
    /\ UNCHANGED used

Next ==
  \/ StartNewGame
  \/ SelectSuit
  \/ InitialFlipStep
  \/ ContinueFromFlip
  \/ PlayCardToLane
  \/ DiscardCard
  \/ EndTurn
  \/ ResolveLane
  \/ ResolveEndOfRound
  \/ SuddenDeathStep

Spec == Init /\ [][Next]_vars

\* The first game is the long game.
LongInit ==
  \E game \in LongGames :
    /\ state = initializeNewGame(game.perm)
    /\ last = Action("START_NEW_GAME")
    /\ used = NewUse(game)

LongSpec == LongInit /\ [][Next]_vars

\* The first game is the game of DeepTies.
TiesInit ==
  /\ state = initializeNewGame(DeepTies)
  /\ last = Action("START_NEW_GAME")
  /\ used = NewUse([lanes |-> 1..MaxLane, turns |-> MaxTurns, direct |-> MaxDirect])

TiesSpec == TiesInit /\ [][Next]_vars

\* A step of a scripted game: the planner's move for player 2 ("ai"), the
\* discard of the first card of player 1's hand ("discard"), or the action of
\* the step's type on the step's lane.
ScriptAction(s, step) ==
  IF step.type = "ai"
    THEN IF getAIMove(s).type = "lane" THEN PlayAction(getAIMove(s))
         ELSE DiscardAction(getAIMove(s).cardId)
  ELSE IF step.type = "discard" THEN DiscardAction(Head(s.player1.hand))
  ELSE [Action(step.type) EXCEPT !.laneId = step.laneId]

RECURSIVE Replay(_, _)
\* The state the dispatches of the script lead to from s; the script ends
\* where the game is finished.
Replay(s, script) ==
  IF script = <<>> \/ s.phase = "Finished" THEN s
  ELSE Replay(gameReducer(s, ScriptAction(s, Head(script)), NoRandom), Tail(script))

Step(type) == [type |-> type, laneId |-> "none"]

ResolveLaneStep(laneId) == [type |-> "RESOLVE_LANE", laneId |-> laneId]

\* The action executeAI of GameBoard dispatches for a move of the planner.
MoveAction(move) ==
  IF move.type = "lane" /\ move.laneId # "none" THEN PlayAction(move)
  ELSE DiscardAction(move.cardId)

RECURSIVE Dispatched(_, _)
\* The state the loop of executeAI leaves: the moves dispatched in order from s.
Dispatched(s, moves) ==
  IF moves = <<>> THEN s
  ELSE Dispatched(gameReducer(s, MoveAction(Head(moves)), NoRandom), Tail(moves))

\* Player 1 discards three cards and ends the turn.
DiscardTurn == <<Step("discard"), Step("discard"), Step("discard"), Step("END_TURN")>>

\* The game of BlockedDeal up to player 2's fourth turn: RESOLVE_LANE takes
\* player 2's pairs off the left and the middle lane, which are left with a
\* king and a queen, and player 2 fills the right lane in its third turn.
BlockedScript ==
  <<Step("INITIAL_FLIP_STEP"), Step("CONTINUE_FROM_FLIP"),
    Step("ai"), Step("ai"), ResolveLaneStep("left"),
    Step("ai"), Step("ai"), ResolveLaneStep("left"), Step("ai"), Step("END_TURN")>>
  \o DiscardTurn
  \o <<Step("ai"), Step("ai"), ResolveLaneStep("middle"), Step("ai"), Step("END_TURN")>>
  \o DiscardTurn
  \o <<Step("ai"), Step("ai"), Step("ai"), Step("END_TURN")>>
  \o DiscardTurn

\* The game starts from the state BlockedScript leads to.
PlannerInit ==
  /\ state = Replay(initializeNewGame(BlockedDeal), BlockedScript)
  /\ last = Action("END_TURN")
  /\ used = NewUse([lanes |-> 1..MaxLane, turns |-> MaxTurns, direct |-> MaxDirect])

PlannerSpec == PlannerInit /\ [][Next]_vars

----------------------------------------------------------------------------
(* Claims                                                                  *)

\* How many times the card id occurs in cards.
Occurrences(cards, id) == Cardinality({k \in 1..Len(cards) : cards[k] = id})

\* C1: in every reachable state each of the 56 card ids occurs in exactly one
\* zone (a player's deck, a player's hand, a lane side, the discard pile).
C1_EveryCardInExactlyOneZone ==
  \A id \in CardIds : Occurrences(collectAllCards(state), id) = 1

\* The phases in which the game is running.
RunningPhases == {"InitialFlip", "InitialFlipResult", "Main", "EndOfRoundResolving"}

\* C2: in every reachable state whose phase is InitialFlip, InitialFlipResult,
\* Main or EndOfRoundResolving both players' HP are greater than 0 (a state
\* with some HP at 0 or less is in phase Finished or SuddenDeath).
C2_HPPositiveWhileRunning ==
  state.phase \in RunningPhases => state.player1.hp > 0 /\ state.player2.hp > 0

\* The HP values the game-over check is probed with.
MaxProbe == 2

HpProbes == (0 - MaxProbe)..MaxProbe

WithHp(s, hp1, hp2) == [s EXCEPT !.player1.hp = hp1, !.player2.hp = hp2]

\* What C3 says of the state r the game-over check returns for HP hp1, hp2.
GameOverRules(r, hp1, hp2) ==
  /\ hp1 <= 0 /\ hp2 > 0 => r.phase = "Finished" /\ r.winner = 2
  /\ hp2 <= 0 /\ hp1 > 0 => r.phase = "Finished" /\ r.winner = 1
  /\ hp1 <= 0 /\ hp2 <= 0 /\ hp1 > hp2 => r.phase = "Finished" /\ r.winner = 1
  /\ hp1 <= 0 /\ hp2 <= 0 /\ hp2 > hp1 => r.phase = "Finished" /\ r.winner = 2
  /\ hp1 <= 0 /\ hp2 <= 0 /\ hp1 = hp2 => r.phase = "SuddenDeath" /\ r.winner = 0

\* The actions whose handlers run the game-over check.
CheckedTypes ==
  {"CONTINUE_FROM_FLIP", "PLAY_CARD_TO_LANE", "DISCARD_CARD", "END_TURN", "RESOLVE_END_OF_ROUND"}

\* C3: when the game-over check runs on a state with some HP at 0 or less:
\* exactly one player at 0 or less makes the phase Finished with the other
\* player the winner; both at 0 or less with different HP makes the player
\* with the higher HP the winner; both at 0 or less and equal makes the phase
\* SuddenDeath with no winner set. Stated of the check on every reachable
\* state in which a handler runs it, for every HP in HpProbes, and of every
\* state a handler that runs it has ended the game into.
C3_GameOverRules ==
  /\ state.phase \in {"InitialFlipResult", "Main", "EndOfRoundResolving"} =>
       \A hp1, hp2 \in HpProbes :
         hp1 <= 0 \/ hp2 <= 0 =>
           /\ checkGameOver(WithHp(state, hp1, hp2)).over
           /\ GameOverRules(checkGameOver(WithHp(state, hp1, hp2)).state, hp1, hp2)
  /\ /\ last.type \in CheckedTypes
     /\ state.phase \in {"Finished", "SuddenDeath"}
     /\ state.player1.hp <= 0 \/ state.player2.hp <= 0
     => GameOverRules(state, state.player1.hp, state.player2.hp)

\* A lethal discard of player 1 has ended the game.
C3_Witness ==
  /\ last.type = "DISCARD_CARD"
  /\ state.phase = "Finished"
  /\ state.player1.hp <= 0
  /\ state.player2.hp > 0
  /\ state.winner = 2

\* The suits, cards and lanes an action can name.
SuitInputs == {ALL_SUITS[k] : k \in 1..Len(ALL_SUITS)}

LaneInputs == {LANE_IDS[k] : k \in 1..Len(LANE_IDS)}

\* C4: an action dispatched in the wrong phase returns the state unchanged:
\* SELECT_SUIT outside SuitSelection, INITIAL_FLIP_STEP outside InitialFlip,
\* CONTINUE_FROM_FLIP outside InitialFlipResult, PLAY_CARD_TO_LANE,
\* DISCARD_CARD and END_TURN outside Main, RESOLVE_END_OF_ROUND outside
\* EndOfRoundResolving, SUDDEN_DEATH_STEP outside SuddenDeath.
C4_WrongPhaseNoOp ==
  /\ state.phase # "SuitSelection" =>
       \A suit \in SuitInputs : \A pick \in 1..Len(availableSuits(suit)) :
         gameReducer(state, [Action("SELECT_SUIT") EXCEPT !.suit = suit],
                     [NoRandom EXCEPT !.aiSuit = availableSuits(suit)[pick]]) = state
  /\ state.phase # "InitialFlip" =>
       gameReducer(state, Action("INITIAL_FLIP_STEP"), NoRandom) = state
  /\ state.phase # "InitialFlipResult" =>
       gameReducer(state, Action("CONTINUE_FROM_FLIP"), NoRandom) = state
  /\ state.phase # "Main" =>
       /\ \A c \in CardIds : \A l \in LaneInputs :
            gameReducer(state, PlayAction([cardId |-> c, laneId |-> l]), NoRandom) = state
       /\ \A c \in CardIds : gameReducer(state, DiscardAction(c), NoRandom) = state
       /\ gameReducer(state, Action("END_TURN"), NoRandom) = state
  /\ state.phase # "EndOfRoundResolving" =>
       \A perm \in NewRoundPerms(Len(collectAllCards(state))) :
         gameReducer(state, Action("RESOLVE_END_OF_ROUND"),
                     [NoRandom EXCEPT !.perm = perm]) = state
  /\ state.phase # "SuddenDeath" =>
       \A perm \in SuddenDeathPerms :
         gameReducer(state, Action("SUDDEN_DEATH_STEP"),
                     [NoRandom EXCEPT !.perm = perm]) = state

\* The round is over with cards left in both hands and on the lanes: a play
\* or a discard would change the state were it accepted.
C4_Witness ==
  /\ state.phase = "EndOfRoundResolving"
  /\ state.player1.hand # <<>>
  /\ state.player2.hand # <<>>
  /\ LaneCards(state.lanes) # <<>>

\* C5: once the phase is Finished, every action other than START_NEW_GAME
\* (RESOLVE_LANE on a lane that holds cards included) leaves the whole state
\* unchanged.
C5_FinishedIsTerminal ==
  state.phase = "Finished" =>
    /\ C4_WrongPhaseNoOp
    /\ \A l \in LaneInputs : gameReducer(state, ResolveAction(l), NoRandom) = state

\* C6: END_TURN is accepted only in Main with cardsPlayedThisTurn exactly 3;
\* with fewer or with more it returns the state unchanged.
C6_EndTurnOnlyAtExactlyThree ==
  gameReducer(state, Action("END_TURN"), NoRandom) # state =>
    state.phase = "Main" /\ state.cardsPlayedThisTurn = CARDS_PER_TURN


\* The side of a player in a lane of a state.
SideOf(s, laneId, player) ==
  IF player = 1 THEN LaneAt(s, laneId).player1.cards ELSE LaneAt(s, laneId).player2.cards

Other(player) == IF player = 1 THEN 2 ELSE 1

\* The pending entry of a lane filled by a player with a countdown is in the
\* list.
HasPending(s, laneId, player, turns) ==
  \E k \in 1..Len(s.pendingResolutionLanes) :
    s.pendingResolutionLanes[k] =
      [laneId |-> laneId, filledByPlayer |-> player, turnsUntilResolution |-> turns]

\* The step is an accepted dispatch of the action type.
Accepted(type) == state' # state /\ last'.type = type

\* An accepted play that puts the third card on the acting player's side of
\* a lane whose opposing side has fewer than 3 cards creates the pending
\* entry of that lane and player with countdown 2.
ThirdCardStartsCountdown ==
  /\ Accepted("PLAY_CARD_TO_LANE")
  /\ Len(SideOf(state, last'.laneId, state.currentPlayer)) = MAX_CARDS_PER_LANE - 1
  /\ Len(SideOf(state, last'.laneId, Other(state.currentPlayer))) < MAX_CARDS_PER_LANE
  => HasPending(state', last'.laneId, state.currentPlayer, 2)

\* An END_TURN that starts the turn of the player who filled a lane lowers
\* the countdown of the lane from 2 to 1, and resolves the lane when the
\* countdown is 1 (the game going on into that turn).
TurnStartCountsDown ==
  /\ Accepted("END_TURN")
  /\ state'.phase = "Main"
  => \A l \in LaneInputs :
       /\ HasPending(state, l, state'.currentPlayer, 2)
            => HasPending(state', l, state'.currentPlayer, 1)
       /\ HasPending(state, l, state'.currentPlayer, 1)
            => /\ SideOf(state', l, 1) = <<>>
               /\ SideOf(state', l, 2) = <<>>
               /\ \A turns \in 1..2 : ~HasPending(state', l, state'.currentPlayer, turns)

\* C7: delayed resolution. When player A plays the third card on their side
\* of a lane while the opposing side has fewer than 3 cards, the pending entry
\* {lane, A, 2} is created; the countdown drops to 1 at the start of A's next
\* turn, and the lane is resolved at the start of A's turn after that.
C7_DelayedResolution == [][ThirdCardStartsCountdown /\ TurnStartCountsDown]_vars


\* The values of the cards are non-decreasing in the order of the sequence.
NonDecreasing(cards) ==
  \A k \in 1..(Len(cards) - 1) : cardValue(cards[k]) <= cardValue(cards[k + 1])

\* The cards of the current player's hand.
HandCards(s) == {CurrentPlayerState(s).hand[k] : k \in 1..Len(CurrentPlayerState(s).hand)}

\* The card is of a lower value than the last card of the current player's
\* side of the lane.
BelowLast(s, cardId, laneId) ==
  /\ SideOf(s, laneId, s.currentPlayer) # <<>>
  /\ cardValue(cardId) <
       cardValue(SideOf(s, laneId, s.currentPlayer)[Len(SideOf(s, laneId, s.currentPlayer))])

\* C8: in every reachable state the card values on each lane side are
\* non-decreasing in placement order, and a PLAY_CARD_TO_LANE of a card of a
\* lower value than the last card on the acting player's side of the lane
\* returns the state unchanged.
C8_LanePlacementMonotonic ==
  /\ \A l \in LaneInputs : \A player \in 1..2 : NonDecreasing(SideOf(state, l, player))
  /\ \A c \in CardIds : \A l \in LaneInputs :
       BelowLast(state, c, l) =>
         gameReducer(state, PlayAction([cardId |-> c, laneId |-> l]), NoRandom) = state

\* In Main the current player holds a card below the last card of a side of
\* theirs that has room, and a side with three cards of different values has
\* been built.
C8_Witness ==
  /\ state.phase = "Main"
  /\ \E c \in HandCards(state) : \E l \in LaneInputs :
       /\ BelowLast(state, c, l)
       /\ Len(SideOf(state, l, state.currentPlayer)) < MAX_CARDS_PER_LANE
  /\ \E l \in LaneInputs : \E player \in 1..2 :
       /\ Len(SideOf(state, l, player)) = MAX_CARDS_PER_LANE
       /\ cardValue(SideOf(state, l, player)[1]) < cardValue(SideOf(state, l, player)[3])


\* The record of a player in a state, and the player's FinalTurnDone flag.
PlayerOf(s, player) == IF player = 1 THEN s.player1 ELSE s.player2

FinalTurnDoneOf(s, player) ==
  IF player = 1 THEN s.player1FinalTurnDone ELSE s.player2FinalTurnDone

\* The sequence starts with the prefix.
StartsWith(items, prefix) ==
  Len(prefix) <= Len(items) /\ SubSeq(items, 1, Len(prefix)) = prefix

\* What C9 says of the state r an accepted END_TURN returns for state s, whose
\* acting player has this deck and hand.
DrawStepRules(s, r, deck, hand) ==
  /\ Len(deck) >= 3 =>
       /\ PlayerOf(r, s.currentPlayer).deck = SubSeq(deck, 4, Len(deck))
       /\ PlayerOf(r, s.currentPlayer).hand = hand \o SubSeq(deck, 1, 3)
  /\ Len(deck) \in 1..2 =>
       /\ PlayerOf(r, s.currentPlayer).deck = <<>>
       /\ PlayerOf(r, s.currentPlayer).hand = hand
       /\ StartsWith(r.discardPile, s.discardPile \o deck)
       /\ FinalTurnDoneOf(r, s.currentPlayer)
       /\ r.lanes = s.lanes =>
            r.player1.hp = s.player1.hp /\ r.player2.hp = s.player2.hp
  /\ Len(deck) = 0 =>
       /\ PlayerOf(r, s.currentPlayer).deck = <<>>
       /\ PlayerOf(r, s.currentPlayer).hand = hand
       /\ FinalTurnDoneOf(r, s.currentPlayer)

\* C9: the draw step of an accepted END_TURN for the acting player. With 3
\* or more cards in the deck exactly 3 cards move from the head of the deck to
\* the hand; with 1 or 2 cards in the deck those cards move to the discard
\* pile, the deck becomes empty, the player's FinalTurnDone flag becomes true
\* and the step changes no HP (the HP are the same wherever the turn change
\* resolves no lane); with an empty deck nothing is drawn and the flag becomes
\* true.
C9_DrawStep ==
  state.phase = "Main" /\ state.cardsPlayedThisTurn >= CARDS_PER_TURN =>
    DrawStepRules(state, gameReducer(state, Action("END_TURN"), NoRandom),
                  CurrentPlayerState(state).deck, CurrentPlayerState(state).hand)

\* Player 1 has ended a turn with one card in the deck: the card (a joker
\* that was never drawn) is the last of the discard pile.
C9_Witness ==
  /\ last.type = "END_TURN"
  /\ state.phase = "Main"
  /\ state.currentPlayer = 2
  /\ state.player1FinalTurnDone
  /\ state.player1.deck = <<>>
  /\ state.player1.hand # <<>>
  /\ state.discardPile # <<>>
  /\ state.discardPile[Len(state.discardPile)] = 53


\* What C10 says of the state r an accepted DISCARD_CARD of the card returns
\* for state s.
DiscardRules(s, r, cardId) ==
  /\ PlayerOf(r, s.currentPlayer).hand =
       SelectSeq(PlayerOf(s, s.currentPlayer).hand, LAMBDA c : c # cardId)
  /\ r.discardPile = s.discardPile \o <<cardId>>
  /\ PlayerOf(r, s.currentPlayer).hp = PlayerOf(s, s.currentPlayer).hp - cardValue(cardId)
  /\ r.cardsPlayedThisTurn = s.cardsPlayedThisTurn + 1
  /\ PlayerOf(r, Other(s.currentPlayer)).hp = PlayerOf(s, Other(s.currentPlayer)).hp
  /\ PlayerOf(r, s.currentPlayer).hp <= 0 =>
       r.phase = "Finished" /\ r.winner = Other(s.currentPlayer)

\* C10: an accepted DISCARD_CARD (Main phase, card in the current player's
\* hand) removes the card from that hand, appends it to the discard pile,
\* lowers the discarding player's HP by exactly the card's value, raises
\* cardsPlayedThisTurn by 1 and leaves the opponent's HP unchanged; if the
\* discarder's HP is thereby 0 or less the game ends at once with the opponent
\* as winner.
C10_DiscardEffects ==
  state.phase = "Main" =>
    \A c \in HandCards(state) :
      DiscardRules(state, gameReducer(state, DiscardAction(c), NoRandom), c)

\* The card ids an action can name: the 56 cards and an id no card has.
CardInputs == CardIds \cup {-1}

\* The lane ids an action can name: the three lanes and an id no lane has.
LaneIdInputs == LaneInputs \cup {"none"}

\* C11: for every state, card id and lane id, canPlayCardToLane(state,
\* cardId, laneId) is true exactly when the reducer's PLAY_CARD_TO_LANE with
\* that card and lane returns a state different from the input.
C11_CanPlayMirrorsReducer ==
  \A c \in CardInputs : \A l \in LaneIdInputs :
    canPlayCardToLane(state, c, l)
      <=> gameReducer(state, PlayAction([cardId |-> c, laneId |-> l]), NoRandom) # state

\* In Main the current player holds a card that a lane takes and a card that
\* the same lane, with room left, refuses for its value.
C11_Witness ==
  /\ state.phase = "Main"
  /\ \E l \in LaneInputs : \E c, d \in HandCards(state) :
       /\ canPlayCardToLane(state, c, l)
       /\ ~canPlayCardToLane(state, d, l)
       /\ Len(PlayerSide(state, LaneAt(state, l)).cards) < MAX_CARDS_PER_LANE
       /\ gameReducer(state, PlayAction([cardId |-> c, laneId |-> l]), NoRandom) # state
       /\ gameReducer(state, PlayAction([cardId |-> d, laneId |-> l]), NoRandom) = state

\* C12: for every state, canEndTurn(state) is true exactly when the reducer's
\* END_TURN returns a state different from the input.
C12_CanEndTurnMirrorsReducer ==
  canEndTurn(state) <=> gameReducer(state, Action("END_TURN"), NoRandom) # state

\* More than three cards are played in the turn and END_TURN is accepted.
C12_Witness ==
  /\ state.phase = "Main"
  /\ state.cardsPlayedThisTurn > CARDS_PER_TURN
  /\ canEndTurn(state)
  /\ gameReducer(state, Action("END_TURN"), NoRandom) # state

\* The cards of player 2's hand.
AIHand(s) == {s.player2.hand[k] : k \in 1..Len(s.player2.hand)}

\* The move is a lane move that canPlayCardToLane allows in s, or the discard
\* of a card of player 2's hand.
LegalAIMove(s, move) ==
  \/ move.type = "lane" /\ canPlayCardToLane(s, move.cardId, move.laneId)
  \/ move.type = "discard" /\ move.cardId \in AIHand(s)

RECURSIVE LegalAITurn(_, _)
\* Each move of the list is legal in the state the moves before it are
\* simulated into from s.
LegalAITurn(s, moves) ==
  \/ moves = <<>>
  \/ /\ LegalAIMove(s, Head(moves))
     /\ LegalAITurn(simulateMove(s, Head(moves)), Tail(moves))

\* C13: in Main with currentPlayer 2 the move getAIMove returns, and each move
\* of executeAITurn judged in the locally simulated state it was chosen in,
\* is a lane move that canPlayCardToLane allows or the discard of a card of
\* player 2's hand.
C13_AILegality ==
  state.phase = "Main" /\ state.currentPlayer = 2 =>
    /\ getAIMove(state) # NoMove => LegalAIMove(state, getAIMove(state))
    /\ LegalAITurn(state, executeAITurn(state))

\* On player 2's turn the plan of executeAITurn holds a lane move and a
\* discard.
C13_Witness ==
  /\ state.phase = "Main"
  /\ state.currentPlayer = 2
  /\ Len(executeAITurn(state)) = 3
  /\ \E j, k \in 1..3 : /\ executeAITurn(state)[j].type = "lane"
                        /\ executeAITurn(state)[k].type = "discard"

\* Player 2 holds a card that canPlayCardToLane allows on the lane.
HasLegalPlay(s, laneId) == \E c \in AIHand(s) : canPlayCardToLane(s, c, laneId)

\* The place of the lane in the priority order of the planner: 1 player 1 has
\* 3 cards and player 2 fewer; 2 player 2 has 2 cards; 3 and 4 player 2 has
\* 1 card, player 1 some or none; 5 and 6 player 2 has no card, player 1 some
\* or none; 7 player 2's side is full.
PriorityOf(s, laneId) ==
  LET p1 == Len(SideOf(s, laneId, 1))
      p2 == Len(SideOf(s, laneId, 2))
  IN IF p1 = MAX_CARDS_PER_LANE /\ p2 < MAX_CARDS_PER_LANE THEN 1
     ELSE IF p2 = 2 THEN 2
     ELSE IF p2 = 1 THEN (IF p1 > 0 THEN 3 ELSE 4)
     ELSE IF p2 = 0 THEN (IF p1 > 0 THEN 5 ELSE 6)
     ELSE 7

\* C14: on player 2's turn getAIMove picks a legal play from the first
\* category that has one: (1) lanes where player 1 has 3 cards and player 2
\* fewer, (2) lanes where player 2 has 2 cards, (3) lanes where player 2 has
\* 1 card, those player 1 has cards on first, (4) lanes where player 2 has no
\* card, those player 1 has cards on first. No lane of an earlier place in
\* this order has a legal play when the move is returned.
C14_AIPriorityOrder ==
  state.phase = "Main" /\ state.currentPlayer = 2 =>
    /\ (\E l \in LaneInputs : HasLegalPlay(state, l)) =>
         /\ getAIMove(state).type = "lane"
         /\ canPlayCardToLane(state, getAIMove(state).cardId, getAIMove(state).laneId)
    /\ getAIMove(state).type = "lane" =>
         \A l \in LaneInputs :
           HasLegalPlay(state, l) =>
             PriorityOf(state, getAIMove(state).laneId) <= PriorityOf(state, l)

\* On player 2's turn a lane it must answer and a lane it has 2 cards on
\* both have a legal play, and the planner answers.
C14_Witness ==
  /\ state.phase = "Main"
  /\ state.currentPlayer = 2
  /\ getAIMove(state).type = "lane"
  /\ PriorityOf(state, getAIMove(state).laneId) = 1
  /\ \E l \in LaneInputs : HasLegalPlay(state, l) /\ PriorityOf(state, l) = 2

\* C15: on player 2's turn in Main getAIMove returns a discard only when no
\* card of player 2's hand can be played to any of the three lanes, and the
\* card discarded is a hand card of the lowest value; getAIMove returns null
\* exactly when player 2's hand is empty.
C15_AIFallbackDiscard ==
  /\ getAIMove(state) = NoMove <=> Len(state.player2.hand) = 0
  /\ /\ state.phase = "Main"
     /\ state.currentPlayer = 2
     /\ getAIMove(state).type = "discard"
     => /\ \A l \in LaneInputs : ~HasLegalPlay(state, l)
        /\ getAIMove(state).cardId \in AIHand(state)
        /\ \A d \in AIHand(state) :
             cardValue(getAIMove(state).cardId) <= cardValue(d)

\* Player 2 has discarded in its turn and holds cards of different values,
\* none of which any lane takes: the planner discards again.
C15_Witness ==
  /\ state.phase = "Main"
  /\ state.currentPlayer = 2
  /\ last.type = "DISCARD_CARD"
  /\ state.cardsPlayedThisTurn > 0
  /\ getAIMove(state).type = "discard"
  /\ \E c, d \in AIHand(state) : cardValue(c) < cardValue(d)

\* The state with the suits the players chose.
WithSuits(s, suit1, suit2) == [s EXCEPT !.player1Suit = suit1, !.player2Suit = suit2]

\* The cards an action is probed with: those of the hands, and an id no card
\* has.
ProbeCards(s) ==
  {s.player1.hand[k] : k \in 1..Len(s.player1.hand)} \cup AIHand(s) \cup {-1}

\* The states the actions other than START_NEW_GAME lead to from s, for the
\* suits, cards, lanes and shuffles an action can carry.
Successors(s) ==
  {gameReducer(s, [Action("SELECT_SUIT") EXCEPT !.suit = suit],
               [NoRandom EXCEPT !.aiSuit = availableSuits(suit)[pick]]) :
     suit \in SuitInputs, pick \in 1..(Len(ALL_SUITS) - 1)}
  \cup {gameReducer(s, Action(type), NoRandom) :
          type \in {"INITIAL_FLIP_STEP", "CONTINUE_FROM_FLIP", "END_TURN"}}
  \cup {gameReducer(s, PlayAction([cardId |-> c, laneId |-> l]), NoRandom) :
          c \in ProbeCards(s), l \in LaneInputs}
  \cup {gameReducer(s, DiscardAction(c), NoRandom) : c \in ProbeCards(s)}
  \cup {gameReducer(s, ResolveAction(l), NoRandom) : l \in LaneInputs}
  \cup {gameReducer(s, Action("RESOLVE_END_OF_ROUND"), [NoRandom EXCEPT !.perm = perm]) :
          perm \in NewRoundPerms(Len(collectAllCards(s)))}
  \cup {gameReducer(s, Action("SUDDEN_DEATH_STEP"), [NoRandom EXCEPT !.perm = perm]) :
          perm \in SuddenDeathPerms}

C17_NewRoundAfterEndOfRound ==
  state.phase = "EndOfRoundResolving" =>
    \A perm \in NewRoundPerms(Len(collectAllCards(state))) :
      LET resolved == ResolveAllLanes(state, state.lanes)
          r == gameReducer(state, Action("RESOLVE_END_OF_ROUND"),
                           [NoRandom EXCEPT !.perm = perm])
      IN /\ resolved.player1.hp > 0
         /\ resolved.player2.hp > 0
         /\ resolved.player1.hp # resolved.player2.hp
         => /\ r.phase = "InitialFlip"
            /\ r.roundNumber = state.roundNumber + 1
            /\ r.player1.hp = resolved.player1.hp
            /\ r.player2.hp = resolved.player2.hp
            /\ ~r.player1FinalTurnDone
            /\ ~r.player2FinalTurnDone
            /\ r.cardsPlayedThisTurn = 0
            /\ r.winner = 0

\* RESOLVE_END_OF_ROUND has started the second round with both players
\* below the starting HP, at different HP.
C17_Witness ==
  /\ last.type = "RESOLVE_END_OF_ROUND"
  /\ state.phase = "InitialFlip"
  /\ state.roundNumber = 2
  /\ state.player1.hp < STARTING_HP
  /\ state.player2.hp < STARTING_HP
  /\ state.player1.hp # state.player2.hp

\* C18: whenever a round begins (phase InitialFlip, entered by START_NEW_GAME
\* or by the new round of RESOLVE_END_OF_ROUND) each player's deck holds
\* exactly 28 cards and both hands, all lane sides and the discard pile are
\* empty.
C18_RoundStartsFromFullDeal ==
  state.phase = "InitialFlip" =>
    /\ Len(state.player1.deck) = CARDS_PER_PLAYER
    /\ Len(state.player2.deck) = CARDS_PER_PLAYER
    /\ state.player1.hand = <<>>
    /\ state.player2.hand = <<>>
    /\ LaneCards(state.lanes) = <<>>
    /\ state.discardPile = <<>>

\* C19: START_NEW_GAME yields a fresh game: both HP 100, roundNumber 1, no
\* winner, empty hands, lanes and discard pile, and phase SuitSelection, so
\* that INITIAL_FLIP_STEP is not accepted before SELECT_SUIT.
C19_StartNewGameIsFresh ==
  \A game \in Games :
    LET r == gameReducer(state, Action("START_NEW_GAME"),
                         [NoRandom EXCEPT !.perm = game.perm])
    IN /\ r.player1.hp = STARTING_HP
       /\ r.player2.hp = STARTING_HP
       /\ r.roundNumber = 1
       /\ r.winner = 0
       /\ r.player1.hand = <<>>
       /\ r.player2.hand = <<>>
       /\ LaneCards(r.lanes) = <<>>
       /\ r.discardPile = <<>>
       /\ r.phase = "SuitSelection"
       /\ gameReducer(r, Action("INITIAL_FLIP_STEP"), NoRandom) = r

\* The cards of a sequence.
CardsIn(cards) == {cards[k] : k \in 1..Len(cards)}

\* C20: once CONTINUE_FROM_FLIP is applied, every card revealed by the
\* initial flip, the pairs of the tied comparisons included, is in the
\* discard pile. Stated of the first round, which starts with all 56 cards
\* in the two decks: after CONTINUE_FROM_FLIP every card is in a deck, in a
\* hand or in the discard pile.
C20_FlippedCardsAreDiscarded ==
  last.type = "CONTINUE_FROM_FLIP" /\ state.roundNumber = 1 =>
    \A id \in CardIds :
      id \in CardsIn(state.player1.deck) \cup CardsIn(state.player1.hand)
            \cup CardsIn(state.player2.deck) \cup CardsIn(state.player2.hand)
            \cup CardsIn(state.discardPile)


\* The cards of the deck that are not jokers: one for each rank and suit.
StandardIds == {id \in CardIds : ~isJoker(id)}

\* The orders three cards can lie in.
Arrangements(a, b, c) ==
  {<<a, b, c>>, <<a, c, b>>, <<b, a, c>>, <<b, c, a>>, <<c, a, b>>, <<c, b, a>>}

\* The hand with its first joker standing for the card w1 and its second
\* joker for the card w2.
Assigned(cards, w1, w2) ==
  [k \in 1..Len(cards) |->
     IF ~isJoker(cards[k]) THEN cards[k]
     ELSE IF \E j \in 1..(k - 1) : isJoker(cards[j]) THEN w2 ELSE w1]

\* The greatest bonus of the joker-free hands a hand can stand for: each
\* joker takes the rank and the suit of any standard card.
TrueMaximum(cards) ==
  IF Len(SelectSeq(cards, isJoker)) = 1
    THEN MaxOf({evaluateFixedHand(Assigned(cards, w, w)) : w \in StandardIds})
    ELSE MaxOf({evaluateFixedHand(Assigned(cards, w1, w2)) : w1 \in StandardIds, w2 \in StandardIds})

\* Every 3-card side with one or two jokers (the first two jokers of the
\* deck stand for all four), in any order, has the greatest joker-free bonus
\* over all assignments of a rank and a suit to each joker.
WildHandsHaveTrueMaximum ==
  /\ \A c \in StandardIds : \A d \in {x \in StandardIds : x > c} :
       LET best == TrueMaximum(<<52, c, d>>)
       IN \A hand \in Arrangements(52, c, d) : evaluateLaneBonus(hand) = best
  /\ \A c \in StandardIds :
       LET best == TrueMaximum(<<52, 53, c>>)
       IN \A hand \in Arrangements(52, 53, c) : evaluateLaneBonus(hand) = best

\* The 3-card sides of the lanes of a state.
FullSides(s) ==
  {side \in {s.lanes[l].player1.cards : l \in 1..Len(s.lanes)}
              \cup {s.lanes[l].player2.cards : l \in 1..Len(s.lanes)} : Len(side) = 3}

\* C21: for every 3-card lane side with one or two jokers, those of the
\* lanes of every reachable state among them, evaluateLaneBonus is the
\* greatest joker-free bonus over all assignments of a rank and a suit to
\* each joker: leaving the loops early on a straight flush loses nothing.
C21_JokerSearchFindsMaximum ==
  /\ WildHandsHaveTrueMaximum
  /\ \A side \in FullSides(state) :
       Len(SelectSeq(side, isJoker)) \in {1, 2} => evaluateLaneBonus(side) = TrueMaximum(side)

\* A side with a joker that can stand for the card completing a straight
\* flush lies in a lane.
C21_Witness ==
  \E side \in FullSides(state) :
    /\ Len(SelectSeq(side, isJoker)) = 1
    /\ evaluateLaneBonus(side) = BONUS_STRAIGHT_FLUSH
    /\ TrueMaximum(side) = BONUS_STRAIGHT_FLUSH

JokerIds == {id \in CardIds : isJoker(id)}

\* Two jokers and any other card, in any order, and three jokers have the
\* bonus 20.
TwoJokersHaveStraightFlush ==
  /\ \A c \in StandardIds : \A j1 \in JokerIds : \A j2 \in JokerIds \ {j1} :
       \A hand \in Arrangements(j1, j2, c) : evaluateLaneBonus(hand) = 20
  /\ \A j1 \in JokerIds : \A j2 \in JokerIds \ {j1} : \A j3 \in JokerIds \ {j1, j2} :
       evaluateLaneBonus(<<j1, j2, j3>>) = 20

\* C22: the bonus of a 3-card side of two jokers and any other card, in any
\* order, is 20, and so is the bonus of three jokers: for every such hand,
\* and for the sides of the lanes of every reachable state.
C22_TwoJokersMakeStraightFlush ==
  /\ TwoJokersHaveStraightFlush
  /\ \A side \in FullSides(state) :
       Len(SelectSeq(side, isJoker)) >= 2 => evaluateLaneBonus(side) = 20

\* A side of two or three jokers lies in a lane.
C22_Witness ==
  \E side \in FullSides(state) :
    /\ Len(SelectSeq(side, isJoker)) >= 2
    /\ evaluateLaneBonus(side) = 20

\* The numeric values of the cards of a joker-free hand (the ace is 14).
ValuesOf(hand) == {rankValue(CardOf(hand[k]).rank) : k \in 1..Len(hand)}

\* Three consecutive values, none repeated and none wrapping around.
ConsecutiveValues(hand) ==
  \E low \in 2..12 : ValuesOf(hand) = {low, low + 1, low + 2}

SameSuit(hand) == Cardinality({CardOf(hand[k]).suit : k \in 1..Len(hand)}) = 1

\* The bonuses a joker-free 3-card hand qualifies for.
QualifiedBonuses(hand) ==
  {0}
    \cup (IF Cardinality(ValuesOf(hand)) <= 2 THEN {3} ELSE {})
    \cup (IF SameSuit(hand) THEN {8} ELSE {})
    \cup (IF ConsecutiveValues(hand) THEN {10} ELSE {})
    \cup (IF Cardinality(ValuesOf(hand)) = 1 THEN {12} ELSE {})
    \cup (IF ConsecutiveValues(hand) /\ SameSuit(hand) THEN {20} ELSE {})

\* Every joker-free 3-card hand, in any order, has the largest of the
\* bonuses it qualifies for; the ace is no low card.
FixedHandsHaveLargestBonus ==
  /\ \A a \in StandardIds : \A b \in {x \in StandardIds : x > a} :
       \A c \in {x \in StandardIds : x > b} :
         LET best == MaxOf(QualifiedBonuses(<<a, b, c>>))
         IN \A hand \in Arrangements(a, b, c) : evaluateLaneBonus(hand) = best
  /\ \A s \in 0..3 :
       /\ evaluateLaneBonus(<<Id(s, 14), Id(s, 2), Id(s, 3)>>) = 8
       /\ evaluateLaneBonus(<<Id(s, 13), Id(s, 14), Id(s, 2)>>) = 8
       /\ evaluateLaneBonus(<<Id(s, 14), Id((s + 1) % 4, 2), Id(s, 3)>>) = 0
       /\ evaluateLaneBonus(<<Id(s, 5), Id(s, 6), Id(s, 7)>>) = 20
       /\ evaluateLaneBonus(<<Id(s, 5), Id((s + 1) % 4, 5), Id((s + 2) % 4, 5)>>) = 12

\* C23: the bonus of a joker-free 3-card side is the largest of the bonuses
\* it qualifies for: 20 for a straight flush, 12 for three equal ranks, 10
\* for a straight, 8 for a flush, 3 for a pair, else 0; a straight is three
\* consecutive values with the ace as 14 only, so that A-2-3 and K-A-2 are
\* no straights. This holds for every such hand, and for the sides of the
\* lanes of every reachable state.
C23_FixedHandBonus ==
  /\ FixedHandsHaveLargestBonus
  /\ \A side \in FullSides(state) :
       SelectSeq(side, isJoker) = <<>>
         => evaluateLaneBonus(side) = MaxOf(QualifiedBonuses(side))

\* A joker-free side with a straight flush lies in a lane.
C23_Witness ==
  \E side \in FullSides(state) :
    /\ SelectSeq(side, isJoker) = <<>>
    /\ evaluateLaneBonus(side) = 20
    /\ QualifiedBonuses(side) = {0, 8, 10, 20}

\* The greatest base damage and the greatest damage bonus or healing the
\* rules of suit effects are checked with: three jokers and a straight flush
\* against nothing, and three low active cards.
MaxBase == 65

MaxEffect == 21

\* What applySuitEffectsToLaneDamage(b, w, h) is to return.
SuitEffectRules(b, w, h) ==
  LET r == applySuitEffectsToLaneDamage(b, w, h)
  IN /\ r.finalDamage = (IF b + w - h > 0 THEN b + w - h ELSE 0)
     /\ r.healingOverflow = (IF h - b - w > 0 THEN h - b - w ELSE 0)
     /\ r.finalDamage >= 0 /\ r.healingOverflow >= 0
     /\ ~(r.finalDamage > 0 /\ r.healingOverflow > 0)
     /\ r.finalDamage - r.healingOverflow = b + w - h

AllSuitEffectsFollowRules ==
  /\ \A b \in 0..MaxBase : \A w \in 0..MaxEffect : \A h \in 0..MaxEffect :
       SuitEffectRules(b, w, h)
  /\ applySuitEffectsToLaneDamage(10, 15, 8) = [finalDamage |-> 17, healingOverflow |-> 0]
  /\ applySuitEffectsToLaneDamage(5, 0, 12) = [finalDamage |-> 0, healingOverflow |-> 7]

\* The pairs of suits SELECT_SUIT can set.
SuitPairs ==
  {<<suit1, availableSuits(suit1)[pick]>> :
     suit1 \in SuitInputs, pick \in 1..(Len(ALL_SUITS) - 1)}

\* What resolveLane passes to applySuitEffectsToLaneDamage for a lane of s:
\* nothing when the totals are equal.
EffectInputs(s, lane) ==
  LET p1Total == calculateLaneTotal(lane.player1.cards)
      p2Total == calculateLaneTotal(lane.player2.cards)
      p1Effects == calculateLaneSuitEffects(lane.player1.cards, s.player1Suit)
      p2Effects == calculateLaneSuitEffects(lane.player2.cards, s.player2Suit)
  IN IF p1Total > p2Total
       THEN {<<p1Total - p2Total, p1Effects.totalDamage, p2Effects.totalHealing>>}
     ELSE IF p2Total > p1Total
       THEN {<<p2Total - p1Total, p2Effects.totalDamage, p1Effects.totalHealing>>}
     ELSE {}

\* The same for all lanes of s and all suits the players can have chosen.
ProbedEffectInputs(s) ==
  UNION {EffectInputs(WithSuits(s, suits[1], suits[2]), s.lanes[l]) :
           suits \in SuitPairs, l \in 1..Len(s.lanes)}

CardsOnLanes(s, player) ==
  UNION {{SideOf(s, LANE_IDS[l], player)[k] : k \in 1..Len(SideOf(s, LANE_IDS[l], player))} :
           l \in 1..Len(LANE_IDS)}

SuitOf(s, player) == IF player = 1 THEN s.player1Suit ELSE s.player2Suit

\* C25: a card on a lane is active for its owner exactly when it is a joker or
\* its suit is the suit its owner chose: in every reachable state with cards
\* on the lanes a joker is active and adds its suit effect to the resolution.
C25_JokersAlwaysActive ==
  \A player \in {1, 2} : \A card \in CardsOnLanes(state, player) :
    /\ isCardActive(card, SuitOf(state, player))
         <=> (isJoker(card) \/ CardOf(card).suit = SuitOf(state, player))
    /\ isJoker(card) =>
         LET effect == getSuitEffectValue(card, SuitOf(state, player))
         IN effect.damage + effect.healing > 0

\* The states a resolution is probed in: s as it is, s with each pair of
\* suits the players can have chosen, and s with few HP left.
ResolutionProbes(s) ==
  {s} \cup {WithSuits(s, suits[1], suits[2]) : suits \in SuitPairs}
      \cup {WithHp(s, hp1, hp2) : hp1, hp2 \in 1..MaxProbe}

\* The HP of a player of s after the resolution of a lane whose sides hold
\* cards1 and cards2: the side with the lower total loses the difference and
\* the winner's damage bonus less its own healing, and gains the healing left
\* over.
HpAfterLane(s, cards1, cards2, player) ==
  LET own == IF player = 1 THEN cards1 ELSE cards2
      opposing == IF player = 1 THEN cards2 ELSE cards1
      hp == IF player = 1 THEN s.player1.hp ELSE s.player2.hp
      after == calculateLaneTotal(opposing) - calculateLaneTotal(own)
                 + calculateLaneSuitEffects(opposing, SuitOf(s, Other(player))).totalDamage
                 - calculateLaneSuitEffects(own, SuitOf(s, player)).totalHealing
  IN IF calculateLaneTotal(opposing) > calculateLaneTotal(own) THEN hp - after ELSE hp

\* The discard pile of r is that of s with exactly the cards appended.
Appended(s, r, cards) ==
  /\ Len(r.discardPile) = Len(s.discardPile) + Len(cards)
  /\ SubSeq(r.discardPile, 1, Len(s.discardPile)) = s.discardPile
  /\ {r.discardPile[k] : k \in (Len(s.discardPile) + 1)..Len(r.discardPile)}
       = {cards[k] : k \in 1..Len(cards)}

\* What the play of a card that fills the acting player's side of a lane
\* against a full opposing side returns.
ImmediateResolution(s, cardId, laneId) ==
  LET r == gameReducer(s, PlayAction([cardId |-> cardId, laneId |-> laneId]), NoRandom)
      cards1 == IF s.currentPlayer = 1 THEN Append(SideOf(s, laneId, 1), cardId)
                ELSE SideOf(s, laneId, 1)
      cards2 == IF s.currentPlayer = 2 THEN Append(SideOf(s, laneId, 2), cardId)
                ELSE SideOf(s, laneId, 2)
      hp1 == HpAfterLane(s, cards1, cards2, 1)
      hp2 == HpAfterLane(s, cards1, cards2, 2)
  IN /\ SideOf(r, laneId, 1) = <<>> /\ SideOf(r, laneId, 2) = <<>>
     /\ Appended(s, r, cards1 \o cards2)
     /\ r.player1.hp = hp1 /\ r.player2.hp = hp2
     /\ \A k \in 1..Len(r.pendingResolutionLanes) : r.pendingResolutionLanes[k].laneId # laneId
     /\ IF hp1 <= 0 \/ hp2 <= 0 THEN GameOverRules(r, hp1, hp2)
        ELSE r.phase = "Main" /\ r.winner = s.winner

\* The plays that fill the current player's side of a lane whose opposing
\* side is full.
FillingPlays(s) ==
  {in \in HandCards(s) \X LaneInputs :
     /\ s.phase = "Main"
     /\ canPlayCardToLane(s, in[1], in[2])
     /\ Len(SideOf(s, in[2], s.currentPlayer)) = MAX_CARDS_PER_LANE - 1
     /\ Len(SideOf(s, in[2], Other(s.currentPlayer))) = MAX_CARDS_PER_LANE}

\* C26: an accepted PLAY_CARD_TO_LANE that brings the acting player's side of
\* a lane to 3 cards against a full opposing side resolves the lane in the
\* same transition: both sides are empty, exactly the 6 cards are appended to
\* the discard pile, the damage is applied, the lane has no pending entry and
\* the game-over check has decided the phase. Stated of every such play in
\* every reachable state, taken with the suits the players can have chosen
\* and with few HP left.
C26_ImmediateResolution ==
  \A in \in FillingPlays(state) : \A s \in ResolutionProbes(state) :
    ImmediateResolution(s, in[1], in[2])

\* The last play has filled a lane against a full side: the lane is empty
\* and its six cards end the discard pile, the card played among them.
C26_Witness ==
  /\ last.type = "PLAY_CARD_TO_LANE"
  /\ SideOf(state, last.laneId, 1) = <<>> /\ SideOf(state, last.laneId, 2) = <<>>
  /\ Len(state.discardPile) >= 6
  /\ \E k \in {Len(state.discardPile) - 3, Len(state.discardPile)} :
       state.discardPile[k] = last.cardId
  /\ state.phase = "Main"
  /\ state.player1.hp # state.player2.hp

\* The pending entries of s filled by the player, and those filled by the
\* other player, in the order of the list.
PendingOf(s, player) ==
  SelectSeq(s.pendingResolutionLanes, LAMBDA p : p.filledByPlayer = player)

\* What an accepted END_TURN that does not end the round does to the turn
\* and to the pending entries: those of the player whose turn starts are
\* counted down by one or have their lane resolved, the others are as they
\* were.
EndTurnFrame ==
  /\ Accepted("END_TURN")
  /\ state'.phase # "EndOfRoundResolving"
  => /\ state'.currentPlayer = Other(state.currentPlayer)
     /\ state'.cardsPlayedThisTurn = 0
     /\ PendingOf(state', state.currentPlayer) = PendingOf(state, state.currentPlayer)
     /\ \A k \in 1..Len(PendingOf(state, state'.currentPlayer)) :
          LET entry == PendingOf(state, state'.currentPlayer)[k]
          IN IF entry.turnsUntilResolution > 1
               THEN /\ HasPending(state', entry.laneId, entry.filledByPlayer,
                                  entry.turnsUntilResolution - 1)
                    /\ ~HasPending(state', entry.laneId, entry.filledByPlayer,
                                   entry.turnsUntilResolution)
               ELSE /\ SideOf(state', entry.laneId, 1) = <<>>
                    /\ SideOf(state', entry.laneId, 2) = <<>>

\* C27: an accepted END_TURN that does not end the round passes the turn to
\* the other player, sets cardsPlayedThisTurn to 0, lowers by exactly 1 the
\* countdown of each pending entry filled by the player whose turn starts,
\* or resolves its lane when the countdown reaches 0, and leaves the entries
\* filled by the other player as they were.
C27_EndTurnTouchesOwnPending == [][EndTurnFrame]_vars

\* C28: when both FinalTurnDone flags are true after the draw step of an
\* accepted END_TURN, the phase becomes EndOfRoundResolving and the pending
\* list is emptied with no lane resolved (the lanes and both HP are as
\* before); otherwise the phase does not become EndOfRoundResolving, and in
\* every reachable state of that phase both flags are true.
C28_RoundEndsWhenBothDone ==
  /\ LET r == gameReducer(state, Action("END_TURN"), NoRandom)
     IN r # state =>
          IF r.player1FinalTurnDone /\ r.player2FinalTurnDone
            THEN /\ r.phase = "EndOfRoundResolving"
                 /\ r.pendingResolutionLanes = <<>>
                 /\ r.lanes = state.lanes
                 /\ r.player1.hp = state.player1.hp
                 /\ r.player2.hp = state.player2.hp
            ELSE r.phase # "EndOfRoundResolving"
  /\ state.phase = "EndOfRoundResolving" =>
       state.player1FinalTurnDone /\ state.player2FinalTurnDone

\* An END_TURN has ended the round over a lane that was pending: one side
\* is full and the lane is unresolved.
C28_Witness ==
  /\ last.type = "END_TURN"
  /\ state.phase = "EndOfRoundResolving"
  /\ state.pendingResolutionLanes = <<>>
  /\ \E l \in LaneInputs : \E player \in {1, 2} :
       /\ Len(SideOf(state, l, player)) = MAX_CARDS_PER_LANE
       /\ Len(SideOf(state, l, Other(player))) < MAX_CARDS_PER_LANE

RECURSIVE HpAfterLanes(_, _, _)
\* The HP of a player of s after the first n lanes of LANE_IDS, each lane
\* acting on the HP the lanes before it left.
HpAfterLanes(s, n, player) ==
  IF n = 0 THEN (IF player = 1 THEN s.player1.hp ELSE s.player2.hp)
  ELSE HpAfterLane(WithHp(s, HpAfterLanes(s, n - 1, 1), HpAfterLanes(s, n - 1, 2)),
                   SideOf(s, LANE_IDS[n], 1), SideOf(s, LANE_IDS[n], 2), player)

RECURSIVE CardsOfLanes(_, _)
\* The cards of the first n lanes of LANE_IDS, lane by lane, player 1's side
\* of a lane before player 2's.
CardsOfLanes(s, n) ==
  IF n = 0 THEN <<>>
  ELSE CardsOfLanes(s, n - 1) \o SideOf(s, LANE_IDS[n], 1) \o SideOf(s, LANE_IDS[n], 2)

\* s with the HP of the player set to what the first n lanes take from it,
\* so that the player stands at 0 after them; nothing where they take none.
Exhausted(s, n, player) ==
  LET hp == IF player = 1 THEN s.player1.hp ELSE s.player2.hp
      loss == hp - HpAfterLanes(s, n, player)
  IN IF loss <= 0 THEN {}
     ELSE {IF player = 1 THEN [s EXCEPT !.player1.hp = loss]
                         ELSE [s EXCEPT !.player2.hp = loss]}

\* The states the end of a round is probed in: those of a resolution, and,
\* for each pair of suits, those in which a player is at 0 HP before the
\* last lane.
EndOfRoundProbes(s) ==
  ResolutionProbes(s)
    \cup UNION {Exhausted(WithSuits(s, suits[1], suits[2]), n, player) :
                  suits \in SuitPairs, n \in 1..(Len(LANE_IDS) - 1), player \in {1, 2}}

\* What RESOLVE_END_OF_ROUND returns for a state s in EndOfRoundResolving.
EndOfRoundRules(s, r) ==
  LET hp1 == HpAfterLanes(s, Len(LANE_IDS), 1)
      hp2 == HpAfterLanes(s, Len(LANE_IDS), 2)
  IN /\ \A l \in LaneInputs : SideOf(r, l, 1) = <<>> /\ SideOf(r, l, 2) = <<>>
     /\ r.player1.hp = hp1
     /\ r.player2.hp = hp2
     /\ IF hp1 <= 0 \/ hp2 <= 0
          THEN /\ r.phase \in {"Finished", "SuddenDeath"}
               /\ GameOverRules(r, hp1, hp2)
               /\ r.roundNumber = s.roundNumber
               /\ r.discardPile = s.discardPile \o CardsOfLanes(s, Len(LANE_IDS))
        ELSE IF hp1 = hp2
          THEN /\ r.phase = "SuddenDeath"
               /\ r.roundNumber = s.roundNumber
               /\ r.discardPile = s.discardPile \o CardsOfLanes(s, Len(LANE_IDS))
        ELSE /\ r.phase = "InitialFlip"
             /\ r.roundNumber = s.roundNumber + 1

\* C29: in EndOfRoundResolving, RESOLVE_END_OF_ROUND resolves every lane that
\* holds a card, partial sides included, in the order left, middle, right,
\* each resolution acting on the HP the one before left, and checks for the
\* end of the game once, after all lanes: in the state it returns every lane
\* is empty and both HP are those the three lanes leave in turn; the phase is
\* Finished or SuddenDeath by the game-over rules when some HP is 0 or less
\* after the last lane, SuddenDeath when both players are alive at equal HP,
\* and otherwise a new round begins. Where no new round begins the discard
\* pile has gained the cards of the lanes in that order. Stated of every
\* reachable state in EndOfRoundResolving, as it is and with the suits and
\* HP of EndOfRoundProbes.
C29_EndOfRoundResolvesAllLanes ==
  state.phase = "EndOfRoundResolving" =>
    \A s \in EndOfRoundProbes(state) :
      \A perm \in NewRoundPerms(Len(collectAllCards(s))) :
        EndOfRoundRules(s, gameReducer(s, Action("RESOLVE_END_OF_ROUND"),
                                       [NoRandom EXCEPT !.perm = perm]))

\* RESOLVE_END_OF_ROUND has ended the game over lanes it emptied: no lane
\* holds a card and a player has no HP left.
C29_Witness ==
  /\ last.type = "RESOLVE_END_OF_ROUND"
  /\ state.phase \in {"Finished", "SuddenDeath"}
  /\ \A l \in LaneInputs : SideOf(state, l, 1) = <<>> /\ SideOf(state, l, 2) = <<>>
  /\ state.discardPile # <<>>

\* The HP of a player of s.
HpOf(s, player) == IF player = 1 THEN s.player1.hp ELSE s.player2.hp

\* What the resolution of lane laneId of s, returning r, does to the HP of
\* the players.
LaneHpRules(s, r, laneId) ==
  \A player \in {1, 2} :
    LET own == SideOf(s, laneId, player)
        opposing == SideOf(s, laneId, Other(player))
        base == calculateLaneTotal(opposing) - calculateLaneTotal(own)
        bonus == calculateLaneSuitEffects(opposing, SuitOf(s, Other(player))).totalDamage
        healing == calculateLaneSuitEffects(own, SuitOf(s, player)).totalHealing
        effects == applySuitEffectsToLaneDamage(base, bonus, healing)
    IN IF base <= 0 THEN HpOf(r, player) = HpOf(s, player)
       ELSE IF healing > base + bonus
         THEN /\ effects.healingOverflow > 0
              /\ HpOf(r, player) = HpOf(s, player) + effects.healingOverflow
       ELSE /\ effects.healingOverflow = 0
            /\ HpOf(r, player) = HpOf(s, player) - effects.finalDamage
            /\ HpOf(r, player) <= HpOf(s, player)

\* C30: resolving a lane never changes the HP of the side with the higher
\* lane total; only the side with the lower total changes: it loses
\* finalDamage HP or, when its healing exceeds the base damage plus the
\* winner's damage bonus, gains healingOverflow HP; when the two totals are
\* equal neither HP changes. Stated of resolveLane on every lane of every
\* reachable state, with the suits as they are and with each pair of suits
\* the players can have chosen.
C30_OnlyLowerSideChangesHp ==
  \A s \in {state} \cup {WithSuits(state, suits[1], suits[2]) : suits \in SuitPairs} :
    \A l \in LaneInputs : LaneHpRules(s, resolveLane(s, l), l)

\* A play has resolved a lane in the first round at the cost of player 2
\* alone, and a lane on the table would leave its loser with more HP than
\* before under some choice of suits.
C30_Witness ==
  /\ last.type = "PLAY_CARD_TO_LANE"
  /\ state.roundNumber = 1
  /\ state.discardPile # <<>>
  /\ state.player1.hp = STARTING_HP
  /\ state.player2.hp < STARTING_HP
  /\ \E suits \in SuitPairs : \E l \in LaneInputs : \E player \in {1, 2} :
       LET s == WithSuits(state, suits[1], suits[2])
       IN /\ calculateLaneTotal(SideOf(s, l, player))
               < calculateLaneTotal(SideOf(s, l, Other(player)))
          /\ HpOf(resolveLane(s, l), player) > HpOf(s, player)

\* The positions at which the heads of the two decks of s differ in value.
DecidingPairs(s) ==
  {k \in 1..Len(s.player1.deck) :
     k <= Len(s.player2.deck)
       /\ cardValue(s.player1.deck[k]) # cardValue(s.player2.deck[k])}

\* What the flip of the decks of s records in r: the first pair that differs
\* gives the winner and the damage, and no such pair gives player 1 and 0.
FlipRules(s, r) ==
  IF DecidingPairs(s) = {}
    THEN r.flipResult.winner = 1 /\ r.flipResult.damage = 0
  ELSE LET k == CHOOSE k \in DecidingPairs(s) : \A j \in DecidingPairs(s) : k <= j
           value1 == cardValue(s.player1.deck[k])
           value2 == cardValue(s.player2.deck[k])
       IN /\ r.flipResult.player1Card = s.player1.deck[k]
          /\ r.flipResult.player2Card = s.player2.deck[k]
          /\ r.flipResult.winner = (IF value1 > value2 THEN 1 ELSE 2)
          /\ r.flipResult.damage = (IF value1 > value2 THEN value1 - value2
                                                       ELSE value2 - value1)

\* C31: in InitialFlip, INITIAL_FLIP_STEP reveals pairs from the heads of the
\* two decks until the values differ; the recorded winner is the owner of
\* the higher card of the last pair and the recorded damage is the
\* difference of its values; decks that run out with ties only give player 1
\* and damage 0. The step changes no HP and moves to InitialFlipResult.
C31_InitialFlipStep ==
  state.phase = "InitialFlip" =>
    LET r == gameReducer(state, Action("INITIAL_FLIP_STEP"), NoRandom)
    IN /\ r.phase = "InitialFlipResult"
       /\ r.player1.hp = state.player1.hp
       /\ r.player2.hp = state.player2.hp
       /\ FlipRules(state, r)

\* The deck and the hand of a player of s.
DeckOf(s, player) == IF player = 1 THEN s.player1.deck ELSE s.player2.deck

HandOf(s, player) == IF player = 1 THEN s.player1.hand ELSE s.player2.hand

\* A player of r has drawn count cards from the head of its deck in s, behind
\* the cards of its hand.
HasDrawn(s, r, player, count) ==
  /\ count <= Len(DeckOf(s, player))
  /\ HandOf(r, player) = HandOf(s, player) \o SubSeq(DeckOf(s, player), 1, count)
  /\ DeckOf(r, player) = SubSeq(DeckOf(s, player), count + 1, Len(DeckOf(s, player)))

\* The smaller of two numbers.
Least(a, b) == IF a < b THEN a ELSE b

\* What CONTINUE_FROM_FLIP returns for a state s in InitialFlipResult whose
\* flip is recorded, each player drawing draws[player] cards where the game
\* goes on.
ContinueFromFlipRules(s, r, draws) ==
  LET winner == s.flipResult.winner
      loser == Other(winner)
  IN /\ HpOf(r, winner) = HpOf(s, winner)
     /\ HpOf(r, loser) = HpOf(s, loser) - s.flipResult.damage
     /\ r.flipResult = NoFlipResult
     /\ IF HpOf(r, loser) <= 0
          THEN /\ r.phase = "Finished"
               /\ r.winner = winner
               /\ \A player \in {1, 2} : HasDrawn(s, r, player, 0)
        ELSE /\ r.phase = "Main"
             /\ \A player \in {1, 2} : HasDrawn(s, r, player, draws[player])
             /\ r.currentPlayer = winner
             /\ r.cardsPlayedThisTurn = 0
             /\ r.pendingResolutionLanes = <<>>

\* The states CONTINUE_FROM_FLIP is probed in: s as it is and s with few HP
\* left.
FlipProbes(s) == {s} \cup {WithHp(s, hp1, hp2) : hp1, hp2 \in 1..MaxProbe}

\* C32 as stated: in InitialFlipResult, CONTINUE_FROM_FLIP takes the recorded
\* damage from the HP of the loser of the flip only and clears flipResult; a
\* loser left with 0 HP or less ends the game with the winner of the flip as
\* winner and nobody draws; otherwise each player draws 5 cards, the winner
\* of the flip is the current player, cardsPlayedThisTurn is 0, the pending
\* list is empty and the phase is Main.
C32_ContinueFromFlipDrawsFive ==
  state.phase = "InitialFlipResult" =>
    \A s \in FlipProbes(state) :
      ContinueFromFlipRules(s, gameReducer(s, Action("CONTINUE_FROM_FLIP"), NoRandom),
                            [player \in {1, 2} |-> INITIAL_HAND_SIZE])

\* C32 amended: the same, each player drawing 5 cards or, where its deck
\* holds fewer, all the cards of its deck.
C32_ContinueFromFlip ==
  state.phase = "InitialFlipResult" =>
    \A s \in FlipProbes(state) :
      ContinueFromFlipRules(s, gameReducer(s, Action("CONTINUE_FROM_FLIP"), NoRandom),
                            [player \in {1, 2} |->
                               Least(INITIAL_HAND_SIZE, Len(DeckOf(s, player)))])

\* CONTINUE_FROM_FLIP has started the turns of a game in which each deck held
\* two cards after the flip: both hands hold two cards and both decks are
\* empty.
C32_Witness ==
  /\ last.type = "CONTINUE_FROM_FLIP"
  /\ state.phase = "Main"
  /\ state.cardsPlayedThisTurn = 0
  /\ \A player \in {1, 2} :
       Len(HandOf(state, player)) = 2 /\ DeckOf(state, player) = <<>>

\* What a step taken from a state in Main does to the number of cards on the
\* side of a player in a lane.
LaneSideStep(l, player) ==
  LET before == Len(SideOf(state, l, player))
      after == Len(SideOf(state', l, player))
  IN /\ after <= MAX_CARDS_PER_LANE
     /\ \/ after = before
        \/ /\ after = before + 1
           /\ player = state.currentPlayer
           /\ last'.type = "PLAY_CARD_TO_LANE"
           /\ last'.laneId = l
        \/ /\ after = 0
           /\ Len(SideOf(state', l, Other(player))) = 0

\* C33: across a step taken in Main, the number of cards on a lane side stays
\* the same, grows by exactly 1 (on the current player's own side only, by an
\* accepted PLAY_CARD_TO_LANE to that lane), or drops to 0 together with the
\* other side of the lane; it never exceeds 3 and never shrinks otherwise.
C33_LaneSideCounts ==
  [][state.phase = "Main" =>
       \A l \in LaneInputs : \A player \in {1, 2} : LaneSideStep(l, player)]_vars

\* A play has left a lane with a full side facing a side that is not full,
\* after a lane was resolved in the same round.
C33_Witness ==
  /\ last.type = "PLAY_CARD_TO_LANE"
  /\ state.phase = "Main"
  /\ Len(state.discardPile) >= 2 + 2 * MAX_CARDS_PER_LANE
  /\ \E l \in LaneInputs : \E player \in {1, 2} :
       /\ Len(SideOf(state, l, player)) = MAX_CARDS_PER_LANE
       /\ Len(SideOf(state, l, Other(player))) \in 1..(MAX_CARDS_PER_LANE - 1)

\* The game of s has ended.
Ended(s) == s.phase \in {"Finished", "SuddenDeath"}

\* What C34 says of the moves executeAITurn returns for s.
AITurnRules(s) ==
  LET moves == executeAITurn(s)
  IN /\ Len(moves) = CARDS_PER_TURN
     /\ \A k \in 1..Len(moves) :
          LET before == Dispatched(s, SubSeq(moves, 1, k - 1))
          IN ~Ended(before) => gameReducer(before, MoveAction(moves[k]), NoRandom) # before
     /\ LET after == Dispatched(s, moves)
        IN ~Ended(after) => gameReducer(after, Action("END_TURN"), NoRandom) # after

\* The states a turn of the planner starts from.
AITurnStarts(s) ==
  /\ s.phase = "Main"
  /\ s.currentPlayer = 2
  /\ s.cardsPlayedThisTurn = 0
  /\ Len(s.player2.hand) >= CARDS_PER_TURN

\* C34: the moves executeAITurn returns for a state in Main with player 2 to
\* move, no card played in the turn and 3 cards or more in player 2's hand,
\* dispatched in order through gameReducer: there are exactly 3 of them, each
\* changes the state unless the game has ended before it, and END_TURN is
\* accepted after them unless the game has ended. Stated of every such
\* reachable state, as it is and with few HP left.
C34_AITurnIsAccepted ==
  AITurnStarts(state) => \A s \in FlipProbes(state) : AITurnRules(s)

\* The planner's turn starts in a state in which its moves resolve a lane
\* before the last of them is dispatched.
C34_Witness ==
  /\ AITurnStarts(state)
  /\ \E k \in 1..(CARDS_PER_TURN - 1) :
       Len(Dispatched(state, SubSeq(executeAITurn(state), 1, k)).discardPile)
         >= Len(state.discardPile) + 2 * MAX_CARDS_PER_LANE
  /\ ~Ended(Dispatched(state, executeAITurn(state)))

RECURSIVE Simulated(_, _)
\* The planner's state after the moves: simulateMove applied in order from s.
Simulated(s, moves) ==
  IF moves = <<>> THEN s
  ELSE Simulated(simulateMove(s, Head(moves)), Tail(moves))

\* Two states agree on what the planner looks at.
SamePlannerView(real, simulated) ==
  /\ real.player2.hand = simulated.player2.hand
  /\ \A l \in LaneInputs : \A player \in {1, 2} :
       SideOf(real, l, player) = SideOf(simulated, l, player)
  /\ real.discardPile = simulated.discardPile
  /\ real.player1.hp = simulated.player1.hp
  /\ real.player2.hp = simulated.player2.hp
  /\ real.cardsPlayedThisTurn = simulated.cardsPlayedThisTurn

\* C35: the planner's simulation mirrors the reducer: for a state in Main
\* with player 2 to move and every prefix of the moves executeAITurn returns,
\* as long as the game has not ended, the state the dispatched prefix leads
\* to agrees with the simulated state on player 2's hand, the cards on every
\* lane side, the discard pile, both HP and cardsPlayedThisTurn.
C35_SimulationMirrorsReducer ==
  state.phase = "Main" /\ state.currentPlayer = 2 =>
    LET moves == executeAITurn(state)
    IN \A k \in 0..Len(moves) :
         LET real == Dispatched(state, SubSeq(moves, 1, k))
         IN ~Ended(real) => SamePlannerView(real, Simulated(state, SubSeq(moves, 1, k)))

\* The pairs (2k, 2k + 1) of a deck, counted from k = 0, whose values differ.
DifferingPairs(deck) ==
  {k \in 0..((Len(deck) \div 2) - 1) :
     cardValue(deck[2 * k + 1]) # cardValue(deck[2 * k + 2])}

\* The winner the deck decides: the owner of the higher card of the first
\* pair that differs, player 1 where no pair differs.
DecidedBy(deck) ==
  IF DifferingPairs(deck) = {} THEN 1
  ELSE LET k == CHOOSE k \in DifferingPairs(deck) : \A j \in DifferingPairs(deck) : k <= j
       IN IF cardValue(deck[2 * k + 1]) > cardValue(deck[2 * k + 2]) THEN 1 ELSE 2

\* C36: in SuddenDeath, SUDDEN_DEATH_STEP reaches Finished in one step with
\* winner 1 or 2: the first pair (2k, 2k + 1) of a freshly shuffled deck of 56
\* cards whose values differ decides (player 1 if its first card is higher,
\* player 2 if its second), and player 1 wins if all 28 pairs tie; all lanes
\* are emptied and the discard pile becomes the shuffled deck.
C36_SuddenDeathDecides ==
  state.phase = "SuddenDeath" =>
    \A perm \in SuddenDeathPerms :
      LET r == gameReducer(state, Action("SUDDEN_DEATH_STEP"),
                           [NoRandom EXCEPT !.perm = perm])
      IN /\ r.phase = "Finished"
         /\ r.winner \in {1, 2}
         /\ Len(r.discardPile) = DECK_SIZE
         /\ CardsIn(r.discardPile) = CardIds
         /\ r.discardPile = [i \in 1..DECK_SIZE |-> createDeckIds[perm[i]]]
         /\ r.winner = DecidedBy(r.discardPile)
         /\ \A l \in LaneInputs : SideOf(r, l, 1) = <<>> /\ SideOf(r, l, 2) = <<>>

\* SUDDEN_DEATH_STEP has ended a game in which all 28 pairs of the shuffled
\* deck tie: player 1 is the winner.
C36_Witness ==
  /\ last.type = "SUDDEN_DEATH_STEP"
  /\ state.phase = "Finished"
  /\ state.winner = 1
  /\ Len(state.discardPile) = DECK_SIZE
  /\ DifferingPairs(state.discardPile) = {}

\* C37: no deadlock in Main: in every reachable state in Main, in every
\* round and after any number of ties in the initial flip, the cards in the
\* current player's hand and the cards played in the turn are at least 3
\* together, so that the current player can complete the turn and END_TURN
\* becomes enabled.
C37_NoDeadlockInMain ==
  state.phase = "Main" =>
    Len(HandOf(state, state.currentPlayer)) + state.cardsPlayedThisTurn >= CARDS_PER_TURN

\* C38: the pending list is well-formed in every reachable state in Main,
\* whatever actions were dispatched, RESOLVE_LANE included: no lane has more
\* than one entry, every entry has turnsUntilResolution 1 or 2, and the side
\* of the entry's filledByPlayer in its lane holds exactly 3 cards while the
\* other side holds fewer than 3.
C38_PendingListWellFormed ==
  state.phase = "Main" =>
    LET pending == state.pendingResolutionLanes
    IN /\ \A j, k \in 1..Len(pending) : pending[j].laneId = pending[k].laneId => j = k
       /\ \A k \in 1..Len(pending) :
            /\ pending[k].turnsUntilResolution \in {1, 2}
            /\ Len(SideOf(state, pending[k].laneId, pending[k].filledByPlayer))
                 = MAX_CARDS_PER_LANE
            /\ Len(SideOf(state, pending[k].laneId, Other(pending[k].filledByPlayer)))
                 < MAX_CARDS_PER_LANE

\* C39: in every reachable state the winner is set exactly when the phase is
\* Finished: it is null throughout SuddenDeath and in every other phase, and
\* a Finished state has winner 1 or 2.
C39_WinnerIffFinished ==
  /\ state.winner \in {0, 1, 2}
  /\ state.winner # 0 <=> state.phase = "Finished"
  /\ state.phase = "SuddenDeath" => state.winner = 0
  /\ state.phase = "Finished" => state.winner \in {1, 2}

\* An END_TURN has ended the game by the resolution of a pending lane: the
\* phase is Finished and the winner is set.
C39_Witness ==
  /\ last.type = "END_TURN"
  /\ state.phase = "Finished"
  /\ state.winner \in {1, 2}

\* What a step does to the FinalTurnDone flag of a player.
FinalTurnFlagStep(player) ==
  /\ FinalTurnDoneOf(state', player) => DeckOf(state', player) = <<>>
  /\ FinalTurnDoneOf(state, player) /\ ~FinalTurnDoneOf(state', player)
       => \/ last'.type = "START_NEW_GAME"
          \/ /\ last'.type = "RESOLVE_END_OF_ROUND"
             /\ state'.roundNumber = state.roundNumber + 1
  /\ ~FinalTurnDoneOf(state, player) /\ FinalTurnDoneOf(state', player)
       => /\ last'.type = "END_TURN"
          /\ state.phase = "Main"
          /\ state.currentPlayer = player
          /\ state.cardsPlayedThisTurn >= CARDS_PER_TURN

\* C40: whenever a player's FinalTurnDone flag is true the player's deck is
\* empty; a flag that is set stays set until a new round or a new game
\* starts; and a flag is set only by an accepted END_TURN of the same player.
C40_FinalTurnDoneFlags ==
  [][\A player \in {1, 2} : FinalTurnFlagStep(player)]_vars

\* Player 1 has had its final turn and player 2 has not: the game is in
\* Main with player 2 to move and player 1's deck is empty.
C40_Witness ==
  /\ state.phase = "Main"
  /\ last.type = "END_TURN"
  /\ state.currentPlayer = 2
  /\ state.player1FinalTurnDone
  /\ ~state.player2FinalTurnDone
  /\ state.player1.deck = <<>>

====
